---- MODULE Spec2Model ----
(***************************************************************************)
(* Model of the data-access and integrity layer of the employee manager:   *)
(* the SQLite store created by create_sample_data, the storage gateway     *)
(* (DatabaseConnection) and the two repositories (DepartmentModel,         *)
(* EmployeeModel) of models.py.                                            *)
(*                                                                         *)
(* A table is a set of rows, a row a record keyed by column name.  Every   *)
(* SQL text of models.py is one operator SQL_... that computes what the    *)
(* statement does to a store; the gateway wraps it in commit/rollback; a   *)
(* repository method is an operator composing gateway calls exactly as the *)
(* Python method does; an action is one call of a repository method by a   *)
(* single-process caller.                                                  *)
(*                                                                         *)
(* The specifications share the variables: Spec (the write methods from    *)
(* the empty store), SpecQuery (the read-only methods on every store the   *)
(* schema admits), SpecRace (two processes interleaved at the granularity  *)
(* of gateway calls), SpecAnyStore (updates and deletes on every store),   *)
(* SpecFrontEnd (the menu loops of controllers.py), SpecTools (call_tool   *)
(* of mcp_sqlite_server.py), SpecGateway (a gateway call line by line) and *)
(* SpecAnyName (creates and updates with any text as name).                *)
(***************************************************************************)
EXTENDS Integers, Sequences, FiniteSets, TLC

\* Bounds of the model: the largest AUTOINCREMENT id handed out per table.
MaxDepartments == 2
MaxEmployees == 2

\* SQL NULL / Python None in a text column of a result row.
NULL == "NULL"
\* Python None returned by a get_by_* method.
None == [none |-> TRUE]

\* Inputs of the callers.
DepartmentNames == {"HR", "hr"}
DepartmentIds == 1..MaxDepartments
EmployeeIds == 1..MaxEmployees
EmployeeData ==
    { [name |-> "Alice", salary |-> 60000, hire_date |-> "2020-01-15"],
      [name |-> "Bob", salary |-> 80000, hire_date |-> "2019-03-22"] }

\* What the callers search for: nothing, letters in either case, a letter of
\* no name, and the two characters LIKE reads as wildcards.
SearchTerms == {"", "LI", "b", "z", "_", "%"}

\* BINARY collation (byte order) of the text values of the model.
BinaryOrder == <<"", "Alice", "Bob", "HR", "hr">>

VARIABLES
    db,       \* the store: both tables and sqlite_sequence
    call,     \* the last repository call: method and arguments
    ret,      \* what that call returned or raised
    retired,  \* history: per table, the ids of the rows deleted so far
    pending,  \* two concurrent processes: where each is inside its method
    ui        \* the front end: the menu shown and the last message rendered

vars == <<db, call, ret, retired, pending, ui>>

Ids(rows) == {r.id : r \in rows}

Max(S) == CHOOSE m \in S : \A x \in S : x <= m

\* ------------------------------------------------------------------ schema

\* The store right after the CREATE TABLE statements: two empty tables.
\* AUTOINCREMENT keeps the largest id ever used per table in sqlite_sequence.
EmptyStore ==
    [departments |-> {},
     employees |-> {},
     sqlite_sequence |-> [departments |-> 0, employees |-> 0]]

\* Faulty variant: a plain INTEGER PRIMARY KEY, whose next id is one more than the
\* largest id the table holds now.
NextRowid_NoAutoincrement(seq, rows) == Max({0} \cup Ids(rows)) + 1

\* id INTEGER PRIMARY KEY AUTOINCREMENT: one more than the largest id the
\* table has ever held.
NextRowid(seq, rows) == Max({seq} \cup Ids(rows)) + 1

\* Faulty variant: the name column without its UNIQUE constraint.
UniqueName_NoConstraint(rows, self_id, name) == TRUE

\* name TEXT NOT NULL UNIQUE on departments: no other row holds the name.
UniqueName(rows, self_id, name) ==
    \A r \in rows : r.id # self_id => r.name # name

\* ------------------------------------------------------ statement results

\* What a statement leaves behind on its connection: the working store, the
\* cursor's rowcount and lastrowid, or the error sqlite3 raises.
Done(d, rowcount, lastrowid) ==
    [db |-> d, error |-> "", rowcount |-> rowcount, lastrowid |-> lastrowid]

Failed(d, error) ==
    [db |-> d, error |-> error, rowcount |-> -1, lastrowid |-> 0]

\* ---------------------------------------------------------- SQL statements

\* INSERT INTO departments (name) VALUES (?)
SQL_InsertDepartment(d, name) ==
    IF ~UniqueName(d.departments, 0, name)
    THEN Failed(d, "UNIQUE constraint failed: departments.name")
    ELSE LET id == NextRowid(d.sqlite_sequence.departments, d.departments)
         IN  Done([d EXCEPT !.departments = @ \cup {[id |-> id, name |-> name]},
                            !.sqlite_sequence.departments = id],
                  1, id)

\* UPDATE departments SET name = ? WHERE id = ?
SQL_UpdateDepartment(d, name, dept_id) ==
    LET hit == {r \in d.departments : r.id = dept_id}
    IN  IF hit # {} /\ ~UniqueName(d.departments, dept_id, name)
        THEN Failed(d, "UNIQUE constraint failed: departments.name")
        ELSE Done([d EXCEPT !.departments =
                       (@ \ hit) \cup {[r EXCEPT !.name = name] : r \in hit}],
                  Cardinality(hit), 0)

\* Faulty variant: the DELETE without its WHERE clause.
SQL_DeleteDepartment_NoWhere(d, dept_id) ==
    Done([d EXCEPT !.departments = {}], Cardinality(d.departments), 0)

\* DELETE FROM departments WHERE id = ?
\* The FOREIGN KEY clause of employees is not enforced: the connections never
\* turn PRAGMA foreign_keys on.
SQL_DeleteDepartment(d, dept_id) ==
    LET hit == {r \in d.departments : r.id = dept_id}
    IN  Done([d EXCEPT !.departments = @ \ hit], Cardinality(hit), 0)

\* Faulty variant: the parameters bound in another order than the column list.
SQL_InsertEmployee_Swapped(d, name, department_id, salary, hire_date) ==
    LET id == NextRowid(d.sqlite_sequence.employees, d.employees)
    IN  Done([d EXCEPT !.employees = @ \cup
                           {[id |-> id, name |-> name,
                             department_id |-> salary,
                             salary |-> department_id, hire_date |-> hire_date]},
                       !.sqlite_sequence.employees = id],
             1, id)

\* Faulty variant: the FOREIGN KEY enforced, as with PRAGMA foreign_keys = ON.
SQL_InsertEmployee_ForeignKey(d, name, department_id, salary, hire_date) ==
    LET id == NextRowid(d.sqlite_sequence.employees, d.employees)
    IN  IF \E x \in d.departments : x.id = department_id
        THEN Done([d EXCEPT !.employees = @ \cup
                               {[id |-> id, name |-> name,
                                 department_id |-> department_id,
                                 salary |-> salary, hire_date |-> hire_date]},
                           !.sqlite_sequence.employees = id],
                  1, id)
        ELSE Failed(d, "FOREIGN KEY constraint failed")

\* INSERT INTO employees (name, department_id, salary, hire_date) VALUES (?, ?, ?, ?)
\* A str bound to a TEXT column, an int to the INTEGER column and a real number
\* to the REAL column are stored as they are; no constraint of the table can
\* fail for such values (FOREIGN KEY is not enforced, see SQL_DeleteDepartment).
SQL_InsertEmployee(d, name, department_id, salary, hire_date) ==
    LET id == NextRowid(d.sqlite_sequence.employees, d.employees)
    IN  Done([d EXCEPT !.employees = @ \cup
                           {[id |-> id, name |-> name,
                             department_id |-> department_id,
                             salary |-> salary, hire_date |-> hire_date]},
                       !.sqlite_sequence.employees = id],
             1, id)

\* UPDATE employees SET name = ?, department_id = ?, salary = ?, hire_date = ? WHERE id = ?
SQL_UpdateEmployee(d, name, department_id, salary, hire_date, emp_id) ==
    LET hit == {r \in d.employees : r.id = emp_id}
    IN  Done([d EXCEPT !.employees = (@ \ hit) \cup
                           {[r EXCEPT !.name = name,
                                      !.department_id = department_id,
                                      !.salary = salary,
                                      !.hire_date = hire_date] : r \in hit}],
             Cardinality(hit), 0)

\* Faulty variant: the DELETE keyed by department_id instead of id.
SQL_DeleteEmployee_ByDepartment(d, emp_id) ==
    LET hit == {r \in d.employees : r.department_id = emp_id}
    IN  Done([d EXCEPT !.employees = @ \ hit], Cardinality(hit), 0)

\* DELETE FROM employees WHERE id = ?
SQL_DeleteEmployee(d, emp_id) ==
    LET hit == {r \in d.employees : r.id = emp_id}
    IN  Done([d EXCEPT !.employees = @ \ hit], Cardinality(hit), 0)

\* SELECT COUNT(*) as count FROM employees WHERE department_id = ?
SQL_CountEmployeesOfDepartment(d, dept_id) ==
    <<[count |-> Cardinality({e \in d.employees : e.department_id = dept_id})]>>

\* ORDER BY name: rows by the collation rank of their name; rows of equal name
\* come out in rowid order, the order of SQLite's table scan.
Rank(text) == CHOOSE i \in 1..Len(BinaryOrder) : BinaryOrder[i] = text

Before(r, s) ==
    \/ Rank(r.name) < Rank(s.name)
    \/ Rank(r.name) = Rank(s.name) /\ r.id <= s.id

RECURSIVE OrderByName(_)
OrderByName(rows) ==
    IF rows = {} THEN <<>>
    ELSE LET first == CHOOSE r \in rows : \A s \in rows : Before(r, s)
         IN  <<first>> \o OrderByName(rows \ {first})

\* Faulty variant: the join condition on e.id instead of e.department_id.
LeftJoinDepartment_OnId(d, e) ==
    LET ds == {x \in d.departments : x.id = e.id}
        Joined(name) ==
            [id |-> e.id, name |-> e.name, department_id |-> e.department_id,
             salary |-> e.salary, hire_date |-> e.hire_date,
             department_name |-> name]
    IN  IF ds = {} THEN {Joined(NULL)} ELSE {Joined(x.name) : x \in ds}

\* e.*, d.name as department_name FROM employees e LEFT JOIN departments d
\* ON e.department_id = d.id: one row per matching department, and one row
\* with a NULL department_name when none matches.
LeftJoinDepartment(d, e) ==
    LET ds == {x \in d.departments : x.id = e.department_id}
        Joined(name) ==
            [id |-> e.id, name |-> e.name, department_id |-> e.department_id,
             salary |-> e.salary, hire_date |-> e.hire_date,
             department_name |-> name]
    IN  IF ds = {} THEN {Joined(NULL)} ELSE {Joined(x.name) : x \in ds}

JoinedEmployees(d, es) == UNION {LeftJoinDepartment(d, e) : e \in es}

\* Faulty variant: the statement without its WHERE clause.
SQL_SelectDepartmentById_NoWhere(d, dept_id) == OrderByName(d.departments)

\* SELECT * FROM departments WHERE id = ?
SQL_SelectDepartmentById(d, dept_id) ==
    OrderByName({r \in d.departments : r.id = dept_id})

\* SELECT * FROM departments WHERE name = ?  (BINARY comparison: exact case)
SQL_SelectDepartmentByName(d, name) ==
    OrderByName({r \in d.departments : r.name = name})

\* SELECT id FROM departments WHERE id = ?
SQL_SelectDepartmentId(d, department_id) ==
    [i \in 1..Len(SQL_SelectDepartmentById(d, department_id)) |->
        [id |-> SQL_SelectDepartmentById(d, department_id)[i].id]]

\* Faulty variant: an inner join, which drops the employees of no department.
SQL_SelectEmployees_InnerJoin(d) ==
    OrderByName(JoinedEmployees(d,
        {e \in d.employees : \E x \in d.departments : x.id = e.department_id}))

\* SELECT e.*, d.name as department_name ... ORDER BY e.name
SQL_SelectEmployees(d) == OrderByName(JoinedEmployees(d, d.employees))

\* SELECT e.*, d.name as department_name ... WHERE e.id = ?
SQL_SelectEmployeeById(d, emp_id) ==
    OrderByName(JoinedEmployees(d, {e \in d.employees : e.id = emp_id}))

\* SELECT * FROM departments ORDER BY name
SQL_SelectDepartments(d) == OrderByName(d.departments)

\* SELECT e.*, d.name as department_name ... WHERE e.department_id = ?
\* ORDER BY e.name
SQL_SelectEmployeesOfDepartment(d, dept_id) ==
    OrderByName(JoinedEmployees(d, {e \in d.employees : e.department_id = dept_id}))

\* The characters of the text values of the model.
Chars(text) ==
    CASE text = "" -> <<>>
      [] text = "Alice" -> <<"A", "l", "i", "c", "e">>
      [] text = "Bob" -> <<"B", "o", "b">>
      [] text = "LI" -> <<"L", "I">>
      [] text = "b" -> <<"b">>
      [] text = "z" -> <<"z">>
      [] text = "_" -> <<"_">>
      [] text = "%" -> <<"%">>

\* LIKE folds the case of the ASCII letters and of no other character.
Lower(c) ==
    CASE c = "A" -> "a"
      [] c = "B" -> "b"
      [] c = "I" -> "i"
      [] c = "L" -> "l"
      [] OTHER -> c

\* Faulty variant: a comparison that tells upper case from lower case.
Like_CaseSensitive(pattern, text) ==
    LET RECURSIVE M(_, _)
        M(p, t) ==
            IF p = <<>> THEN t = <<>>
            ELSE IF Head(p) = "%"
                 THEN M(Tail(p), t) \/ (t # <<>> /\ M(p, Tail(t)))
                 ELSE /\ t # <<>>
                      /\ (Head(p) = "_" \/ Head(p) = Head(t))
                      /\ M(Tail(p), Tail(t))
    IN  M(pattern, text)

\* text LIKE pattern: % matches any run of characters, _ any one character,
\* any other character itself up to the case of ASCII letters.
Like(pattern, text) ==
    LET RECURSIVE M(_, _)
        M(p, t) ==
            IF p = <<>> THEN t = <<>>
            ELSE IF Head(p) = "%"
                 THEN M(Tail(p), t) \/ (t # <<>> /\ M(p, Tail(t)))
                 ELSE /\ t # <<>>
                      /\ (Head(p) = "_" \/ Lower(Head(p)) = Lower(Head(t)))
                      /\ M(Tail(p), Tail(t))
    IN  M(pattern, text)

\* SELECT e.*, d.name as department_name ... WHERE e.name LIKE ? ORDER BY e.name
SQL_SearchEmployees(d, pattern) ==
    OrderByName(JoinedEmployees(d, {e \in d.employees : Like(pattern, Chars(e.name))}))

\* The aggregates of a group of employee rows.  An aggregate other than COUNT
\* over no row is NULL, which the caller receives as None; AVG is the
\* quotient of the sum by the count.
RECURSIVE SumOfSalaries(_)
SumOfSalaries(es) ==
    IF es = {} THEN 0
    ELSE LET e == CHOOSE x \in es : TRUE
         IN  e.salary + SumOfSalaries(es \ {e})

AVG(es) ==
    IF es = {} THEN None
    ELSE [quotient_of |-> SumOfSalaries(es), by |-> Cardinality(es)]

MIN(es) ==
    IF es = {} THEN None
    ELSE CHOOSE m \in {e.salary : e \in es} : \A e \in es : m <= e.salary

MAX(es) ==
    IF es = {} THEN None
    ELSE CHOOSE m \in {e.salary : e \in es} : \A e \in es : m >= e.salary

\* Faulty variant: the employees counted through a join with their department.
SQL_OverallStatistics_Joined(d) ==
    LET es == {e \in d.employees : \E x \in d.departments : x.id = e.department_id}
    IN  << [total_employees |-> Cardinality(es), average_salary |-> AVG(es),
            min_salary |-> MIN(es), max_salary |-> MAX(es)] >>

\* SELECT COUNT(*), AVG(salary), MIN(salary), MAX(salary) FROM employees:
\* always one row.
SQL_OverallStatistics(d) ==
    << [total_employees |-> Cardinality(d.employees),
        average_salary |-> AVG(d.employees),
        min_salary |-> MIN(d.employees),
        max_salary |-> MAX(d.employees)] >>

\* The orders in which ORDER BY employee_count DESC may return the rows: rows
\* of equal count come in an order SQL leaves open.
ByEmployeeCountDesc(rows) ==
    {s \in [1..Cardinality(rows) -> rows] :
        /\ \A i, j \in DOMAIN s : i < j =>
               s[i] # s[j] /\ s[i].employee_count >= s[j].employee_count}

\* Faulty variant: an inner join, which has no group for a department without employees.
SQL_DepartmentStatistics_InnerJoin(d) ==
    ByEmployeeCountDesc(
        { [department_name |-> x.name,
           employee_count |-> Cardinality({e \in d.employees : e.department_id = x.id}),
           avg_salary |-> AVG({e \in d.employees : e.department_id = x.id})] :
          x \in {y \in d.departments : \E e \in d.employees : e.department_id = y.id} })

\* SELECT d.name, COUNT(e.id), AVG(e.salary) FROM departments d LEFT JOIN
\* employees e ON d.id = e.department_id GROUP BY d.id, d.name
\* ORDER BY employee_count DESC: one group per department.
SQL_DepartmentStatistics(d) ==
    ByEmployeeCountDesc(
        { [department_name |-> x.name,
           employee_count |-> Cardinality({e \in d.employees : e.department_id = x.id}),
           avg_salary |-> AVG({e \in d.employees : e.department_id = x.id})] :
          x \in d.departments })

\* ------------------------------------------------------------ the gateway

\* get_connection: sqlite3.connect(db_path).  A connection sees the database
\* file and, on top of it, the changes of its own open transaction.
get_connection(d) == [file |-> d, working |-> d]

\* cursor.execute(query, params) of a modifying statement: its changes stay in
\* the connection's transaction; a statement that fails changes nothing.
cursor_execute(conn, stmt) == [conn EXCEPT !.working = stmt.db]

\* conn.commit(): the transaction's changes reach the file.
commit(conn) == [conn EXCEPT !.file = conn.working]

\* conn.rollback(): the transaction's changes are dropped.
rollback(conn) == [conn EXCEPT !.working = conn.file]

\* conn.close(): what was not committed is lost; the file is what later
\* connections open.
close(conn) == conn.file

\* DatabaseConnection.execute_query: the rows of a SELECT as a list of dicts;
\* nothing is committed.
execute_query(d, rows) == [db |-> close(get_connection(d)), rows |-> rows]

\* Faulty variant: the statement runs and the connection is closed without commit.
execute_modification_NoCommit(d, stmt) ==
    LET conn == cursor_execute(get_connection(d), stmt)
    IN  IF stmt.error = ""
        THEN [db |-> close(conn), raised |-> "", msg |-> <<>>,
              rows_affected |-> stmt.rowcount, lastrowid |-> stmt.lastrowid,
              writes |-> 1]
        ELSE [db |-> close(rollback(conn)), raised |-> "sqlite3.IntegrityError",
              msg |-> <<stmt.error>>,
              rows_affected |-> -1, lastrowid |-> 0, writes |-> 1]

\* DatabaseConnection.execute_modification: commit and return rowcount and
\* lastrowid when the statement ran, roll back and re-raise when it failed;
\* close in both cases.
\* The only failures of the statements of models.py on this schema are
\* constraint violations, which sqlite3 raises as sqlite3.IntegrityError.
execute_modification(d, stmt) ==
    LET conn == cursor_execute(get_connection(d), stmt)
    IN  IF stmt.error = ""
        THEN [db |-> close(commit(conn)), raised |-> "", msg |-> <<>>,
              rows_affected |-> stmt.rowcount, lastrowid |-> stmt.lastrowid,
              writes |-> 1]
        ELSE [db |-> close(rollback(conn)), raised |-> "sqlite3.IntegrityError",
              msg |-> <<stmt.error>>,
              rows_affected |-> -1, lastrowid |-> 0, writes |-> 1]

\* raise ValueError(msg) out of a repository method, before any write.  Both
\* guards of models.py (delete protection, department existence) raise this
\* class; their messages tell them apart.
RaiseValueError(d, msg) ==
    [db |-> d, raised |-> "ValueError", msg |-> msg,
     rows_affected |-> -1, lastrowid |-> 0, writes |-> 0]

\* ------------------------------------------------------- DepartmentModel

\* results[0] if results else None
FirstOrNone(results) == IF results # <<>> THEN results[1] ELSE None

DepartmentModel_get_all(d) == execute_query(d, SQL_SelectDepartments(d)).rows

DepartmentModel_get_by_id(d, dept_id) ==
    FirstOrNone(execute_query(d, SQL_SelectDepartmentById(d, dept_id)).rows)

DepartmentModel_get_by_name(d, name) ==
    FirstOrNone(execute_query(d, SQL_SelectDepartmentByName(d, name)).rows)

DepartmentModel_create(d, name) ==
    execute_modification(d, SQL_InsertDepartment(d, name))

DepartmentModel_update(d, dept_id, name) ==
    execute_modification(d, SQL_UpdateDepartment(d, name, dept_id))

\* Faulty variant: the delete without the count of assigned employees.
DepartmentModel_delete_Unguarded(d, dept_id) ==
    execute_modification(d, SQL_DeleteDepartment(d, dept_id))

\* Faulty variant: the message reports that employees exist, not how many.
DepartmentModel_delete_NoCount(d, dept_id) ==
    LET employees == execute_query(d, SQL_CountEmployeesOfDepartment(d, dept_id)).rows
    IN  IF employees[1].count > 0
        THEN RaiseValueError(d, <<"Cannot delete department.", 1,
                                  "employees are still assigned to it.">>)
        ELSE execute_modification(d, SQL_DeleteDepartment(d, dept_id))

\* The count of the employees assigned to the department decides: a positive
\* count raises before the DELETE is issued.
\* The method is two gateway calls, each with a connection of its own: the
\* count is read from the store as it is at the first call, the DELETE runs
\* on the store as it is at the second.
DepartmentModel_delete_check(d, dept_id) ==
    execute_query(d, SQL_CountEmployeesOfDepartment(d, dept_id)).rows

DepartmentModel_delete_act(d, employees, dept_id) ==
    IF employees[1].count > 0
    THEN RaiseValueError(d, <<"Cannot delete department.", employees[1].count,
                              "employees are still assigned to it.">>)
    ELSE execute_modification(d, SQL_DeleteDepartment(d, dept_id))

\* A single process runs the two calls back to back on the same store.
DepartmentModel_delete(d, dept_id) ==
    DepartmentModel_delete_act(d, DepartmentModel_delete_check(d, dept_id), dept_id)

\* --------------------------------------------------------- EmployeeModel

EmployeeModel_get_all(d) == execute_query(d, SQL_SelectEmployees(d)).rows

EmployeeModel_get_by_id(d, emp_id) ==
    FirstOrNone(execute_query(d, SQL_SelectEmployeeById(d, emp_id)).rows)

EmployeeModel_get_by_department(d, dept_id) ==
    execute_query(d, SQL_SelectEmployeesOfDepartment(d, dept_id)).rows

\* Faulty variant: the argument is the whole pattern, without the two % around it.
EmployeeModel_search_by_name_NoWrap(d, name_pattern) ==
    execute_query(d, SQL_SearchEmployees(d, Chars(name_pattern))).rows

\* The parameter is f"%{name_pattern}%".
EmployeeModel_search_by_name(d, name_pattern) ==
    execute_query(d,
        SQL_SearchEmployees(d, <<"%">> \o Chars(name_pattern) \o <<"%">>)).rows

\* Faulty variant: the insert without the department check.
EmployeeModel_create_Unguarded(d, name, department_id, salary, hire_date) ==
    execute_modification(d,
        SQL_InsertEmployee(d, name, department_id, salary, hire_date))

\* The department check of create and update: a gateway call of its own.
EmployeeModel_check(d, department_id) ==
    execute_query(d, SQL_SelectDepartmentId(d, department_id)).rows

\* What create does once the check has returned `dept`.
EmployeeModel_create_act(d, dept, name, department_id, salary, hire_date) ==
    IF dept = <<>>
    THEN RaiseValueError(d, <<"Department with ID", department_id, "does not exist">>)
    ELSE execute_modification(d,
             SQL_InsertEmployee(d, name, department_id, salary, hire_date))

EmployeeModel_create(d, name, department_id, salary, hire_date) ==
    EmployeeModel_create_act(d, EmployeeModel_check(d, department_id),
                             name, department_id, salary, hire_date)

\* Faulty variant: the update without the department check.
EmployeeModel_update_Unguarded(d, emp_id, name, department_id, salary, hire_date) ==
    execute_modification(d,
        SQL_UpdateEmployee(d, name, department_id, salary, hire_date, emp_id))

\* What update does once the check has returned `dept`.
EmployeeModel_update_act(d, dept, emp_id, name, department_id, salary, hire_date) ==
    IF dept = <<>>
    THEN RaiseValueError(d, <<"Department with ID", department_id, "does not exist">>)
    ELSE execute_modification(d,
             SQL_UpdateEmployee(d, name, department_id, salary, hire_date, emp_id))

EmployeeModel_update(d, emp_id, name, department_id, salary, hire_date) ==
    EmployeeModel_update_act(d, EmployeeModel_check(d, department_id),
                             emp_id, name, department_id, salary, hire_date)

EmployeeModel_delete(d, emp_id) ==
    execute_modification(d, SQL_DeleteEmployee(d, emp_id))

\* The results get_statistics may return: "overall" is stats[0], and
\* "by_department" the rows of the second query in one of its orders.
EmployeeModel_get_statistics(d) ==
    LET stats == execute_query(d, SQL_OverallStatistics(d)).rows
    IN  { [overall |-> IF stats # <<>> THEN stats[1] ELSE <<>>,
           by_department |-> execute_query(d, dept_stats).rows] :
          dept_stats \in SQL_DepartmentStatistics(d) }

\* ------------------------------------------------------------ the system

\* The outcome of a call as its caller sees it.
Outcome(r) ==
    [raised |-> r.raised, msg |-> r.msg, rows_affected |-> r.rows_affected,
     lastrowid |-> r.lastrowid, writes |-> r.writes]

\* No process is inside a method.
NotPending ==
    [deleter |-> [pc |-> "idle", seen |-> <<>>],
     writer |-> [pc |-> "idle", seen |-> <<>>],
     between |-> "none"]

\* The repositories are called directly, without the front end.
NoFrontEnd == [menu |-> "", screen |-> ""]

\* One repository call: the store becomes what the method left, the call and
\* its outcome are recorded, and the ids of the rows that went are retired.
\* The sequences stay within the bounds of the model.
Returns(method, args, r) ==
    /\ r.db.sqlite_sequence.departments <= MaxDepartments
    /\ r.db.sqlite_sequence.employees <= MaxEmployees
    /\ db' = r.db
    /\ call' = [method |-> method, args |-> args]
    /\ ret' = Outcome(r)
    /\ retired' =
         [departments |-> retired.departments \cup
                            (Ids(db.departments) \ Ids(r.db.departments)),
          employees |-> retired.employees \cup
                            (Ids(db.employees) \ Ids(r.db.employees))]
    /\ UNCHANGED <<pending, ui>>

\* The repositories work on whatever store the file holds (main seeds it only
\* when the file is missing).  The model starts from the schema alone: the
\* seed rows are rows that creates add, so every seeded store is reached.
Init ==
    /\ db = EmptyStore
    /\ call = [method |-> "", args |-> <<>>]
    /\ ret = [raised |-> "", msg |-> <<>>, rows_affected |-> 0,
              lastrowid |-> 0, writes |-> 0]
    /\ retired = [departments |-> {}, employees |-> {}]
    /\ pending = NotPending
    /\ ui = NoFrontEnd

CreateDepartment ==
    \E name \in DepartmentNames :
        Returns("DepartmentModel.create", <<name>>,
                DepartmentModel_create(db, name))

UpdateDepartment ==
    \E dept_id \in DepartmentIds, name \in DepartmentNames :
        Returns("DepartmentModel.update", <<dept_id, name>>,
                DepartmentModel_update(db, dept_id, name))

DeleteDepartment ==
    \E dept_id \in DepartmentIds :
        Returns("DepartmentModel.delete", <<dept_id>>,
                DepartmentModel_delete(db, dept_id))

CreateEmployee ==
    \E e \in EmployeeData, department_id \in DepartmentIds :
        Returns("EmployeeModel.create",
                <<e.name, department_id, e.salary, e.hire_date>>,
                EmployeeModel_create(db, e.name, department_id, e.salary, e.hire_date))

UpdateEmployee ==
    \E emp_id \in EmployeeIds, e \in EmployeeData, department_id \in DepartmentIds :
        Returns("EmployeeModel.update",
                <<emp_id, e.name, department_id, e.salary, e.hire_date>>,
                EmployeeModel_update(db, emp_id, e.name, department_id,
                                     e.salary, e.hire_date))

DeleteEmployee ==
    \E emp_id \in EmployeeIds :
        Returns("EmployeeModel.delete", <<emp_id>>,
                EmployeeModel_delete(db, emp_id))

Next ==
    \/ CreateDepartment
    \/ UpdateDepartment
    \/ DeleteDepartment
    \/ CreateEmployee
    \/ UpdateEmployee
    \/ DeleteEmployee

Spec == Init /\ [][Next]_vars

\* ------------------------------------------------- the read-only methods

\* The stores the schema admits within the bounds: unique ids per table,
\* unique department names, NOT NULL employee names.  Nothing enforces the
\* FOREIGN KEY (the foreign_keys pragma is off), so an employee's
\* department_id may identify no department: raw SQL through the tool
\* surface, or two interleaved processes, leave such rows behind.
DepartmentTables ==
    UNION { { {[id |-> i, name |-> f[i]] : i \in S} :
              f \in {g \in [S -> DepartmentNames] :
                        \A i, j \in S : g[i] = g[j] => i = j} } :
            S \in SUBSET DepartmentIds }

EmployeeTables(data) ==
    UNION { { {[id |-> i, name |-> f[i][1].name, department_id |-> f[i][2],
                salary |-> f[i][1].salary, hire_date |-> f[i][1].hire_date] :
               i \in S} :
              f \in [S -> data \X DepartmentIds] } :
            S \in SUBSET EmployeeIds }

StoresOf(data) ==
    { [departments |-> ds, employees |-> es,
       sqlite_sequence |-> [departments |-> Max({0} \cup Ids(ds)),
                            employees |-> Max({0} \cup Ids(es))]] :
      ds \in DepartmentTables, es \in EmployeeTables(data) }

Stores == StoresOf(EmployeeData)

\* A read-only method returns `value`; the store is what its gateway call
\* `q` left.
Answers(method, args, q, value) ==
    /\ db' = q.db
    /\ call' = [method |-> method, args |-> args]
    /\ ret' = [raised |-> "", value |-> value]
    /\ UNCHANGED <<retired, pending, ui>>

InitQuery ==
    /\ db \in Stores
    /\ call = [method |-> "", args |-> <<>>]
    /\ ret = [raised |-> "", value |-> None]
    /\ retired = [departments |-> {}, employees |-> {}]
    /\ pending = NotPending
    /\ ui = NoFrontEnd

GetDepartmentById ==
    \E dept_id \in DepartmentIds :
        Answers("DepartmentModel.get_by_id", <<dept_id>>,
                execute_query(db, SQL_SelectDepartmentById(db, dept_id)),
                DepartmentModel_get_by_id(db, dept_id))

GetDepartmentByName ==
    \E name \in DepartmentNames :
        Answers("DepartmentModel.get_by_name", <<name>>,
                execute_query(db, SQL_SelectDepartmentByName(db, name)),
                DepartmentModel_get_by_name(db, name))

GetEmployeeById ==
    \E emp_id \in EmployeeIds :
        Answers("EmployeeModel.get_by_id", <<emp_id>>,
                execute_query(db, SQL_SelectEmployeeById(db, emp_id)),
                EmployeeModel_get_by_id(db, emp_id))

SearchEmployees ==
    \E name_pattern \in SearchTerms :
        Answers("EmployeeModel.search_by_name", <<name_pattern>>,
                execute_query(db, EmployeeModel_search_by_name(db, name_pattern)),
                EmployeeModel_search_by_name(db, name_pattern))

GetStatistics ==
    \E value \in EmployeeModel_get_statistics(db) :
        Answers("EmployeeModel.get_statistics", <<>>,
                execute_query(db, value.by_department), value)

ListDepartments ==
    Answers("DepartmentModel.get_all", <<>>,
            execute_query(db, SQL_SelectDepartments(db)),
            DepartmentModel_get_all(db))

ListEmployees ==
    Answers("EmployeeModel.get_all", <<>>,
            execute_query(db, SQL_SelectEmployees(db)),
            EmployeeModel_get_all(db))

ListEmployeesOfDepartment ==
    \E dept_id \in DepartmentIds :
        Answers("EmployeeModel.get_by_department", <<dept_id>>,
                execute_query(db, SQL_SelectEmployeesOfDepartment(db, dept_id)),
                EmployeeModel_get_by_department(db, dept_id))

NextQuery ==
    \/ GetDepartmentById
    \/ GetDepartmentByName
    \/ GetEmployeeById
    \/ SearchEmployees
    \/ GetStatistics
    \/ ListDepartments
    \/ ListEmployees
    \/ ListEmployeesOfDepartment

SpecQuery == InitQuery /\ [][NextQuery]_vars

\* ------------------------------------------------ two concurrent processes

\* Two processes share the database file.  One calls Department.delete, the
\* other Employee.create and Employee.update.  SQLite serialises the
\* statements, and every gateway call is a connection and a transaction of
\* its own, so the processes interleave at the granularity of gateway calls:
\* between the check of a method and its write the other process may run.
\* pending.between records, for the call the writer is in, whether a delete
\* began after its check ("begun") and returned before its write ("done").
\* The deletion history `retired` is not kept here.

\* What the writer writes: the values of one employee.
WriterData == {e \in EmployeeData : e.name = "Alice"}

InitRace ==
    /\ db \in {s \in StoresOf(WriterData) :
                 \A e \in s.employees : \E x \in s.departments : x.id = e.department_id}
    /\ call = [deleter |-> [method |-> "", args |-> <<>>],
               writer |-> [method |-> "", args |-> <<>>]]
    /\ ret = [deleter |-> [raised |-> "", msg |-> <<>>, rows_affected |-> 0,
                           lastrowid |-> 0, writes |-> 0],
              writer |-> [raised |-> "", msg |-> <<>>, rows_affected |-> 0,
                          lastrowid |-> 0, writes |-> 0]]
    /\ retired = [departments |-> {}, employees |-> {}]
    /\ pending = NotPending
    /\ ui = NoFrontEnd

\* Department.delete, first gateway call: the count.
DeleteCheck ==
    /\ pending.deleter.pc = "idle"
    /\ \E dept_id \in DepartmentIds :
        /\ call' = [call EXCEPT !.deleter =
                       [method |-> "DepartmentModel.delete", args |-> <<dept_id>>]]
        /\ pending' = [pending EXCEPT
                          !.deleter = [pc |-> "checked",
                                       seen |-> DepartmentModel_delete_check(db, dept_id)],
                          !.between = IF pending.writer.pc = "checked"
                                      THEN "begun" ELSE "none"]
    /\ UNCHANGED <<db, ret, retired, ui>>

\* Department.delete, the rest: raise, or the DELETE on the store as it is now.
DeleteAct ==
    /\ pending.deleter.pc = "checked"
    /\ LET r == DepartmentModel_delete_act(db, pending.deleter.seen,
                                           call.deleter.args[1])
       IN  /\ db' = r.db
           /\ ret' = [ret EXCEPT !.deleter = Outcome(r)]
    /\ pending' = [pending EXCEPT
                      !.deleter = NotPending.deleter,
                      !.between = IF pending.between = "begun"
                                  THEN "done" ELSE pending.between]
    /\ UNCHANGED <<call, retired, ui>>

\* Employee.create, first gateway call: the department check.
CreateCheck ==
    /\ pending.writer.pc = "idle"
    /\ db.sqlite_sequence.employees < MaxEmployees
    /\ \E e \in WriterData, department_id \in DepartmentIds :
        /\ call' = [call EXCEPT !.writer =
                       [method |-> "EmployeeModel.create",
                        args |-> <<e.name, department_id, e.salary, e.hire_date>>]]
        /\ pending' = [pending EXCEPT
                          !.writer = [pc |-> "checked",
                                      seen |-> EmployeeModel_check(db, department_id)],
                          !.between = "none"]
    /\ UNCHANGED <<db, ret, retired, ui>>

\* Employee.update, first gateway call: the department check.
UpdateCheck ==
    /\ pending.writer.pc = "idle"
    /\ \E emp_id \in EmployeeIds, e \in WriterData, department_id \in DepartmentIds :
        /\ call' = [call EXCEPT !.writer =
                       [method |-> "EmployeeModel.update",
                        args |-> <<emp_id, e.name, department_id, e.salary, e.hire_date>>]]
        /\ pending' = [pending EXCEPT
                          !.writer = [pc |-> "checked",
                                      seen |-> EmployeeModel_check(db, department_id)],
                          !.between = "none"]
    /\ UNCHANGED <<db, ret, retired, ui>>

\* Employee.create, the rest: raise, or the INSERT on the store as it is now.
CreateAct ==
    /\ pending.writer.pc = "checked"
    /\ call.writer.method = "EmployeeModel.create"
    /\ LET a == call.writer.args
           r == EmployeeModel_create_act(db, pending.writer.seen, a[1], a[2], a[3], a[4])
       IN  /\ db' = r.db
           /\ ret' = [ret EXCEPT !.writer = Outcome(r)]
    /\ pending' = [pending EXCEPT
                      !.writer = NotPending.writer,
                      !.between = IF pending.between = "done" THEN "done" ELSE "none"]
    /\ UNCHANGED <<call, retired, ui>>

\* Employee.update, the rest: raise, or the UPDATE on the store as it is now.
UpdateAct ==
    /\ pending.writer.pc = "checked"
    /\ call.writer.method = "EmployeeModel.update"
    /\ LET a == call.writer.args
           r == EmployeeModel_update_act(db, pending.writer.seen,
                                         a[1], a[2], a[3], a[4], a[5])
       IN  /\ db' = r.db
           /\ ret' = [ret EXCEPT !.writer = Outcome(r)]
    /\ pending' = [pending EXCEPT
                      !.writer = NotPending.writer,
                      !.between = IF pending.between = "done" THEN "done" ELSE "none"]
    /\ UNCHANGED <<call, retired, ui>>

NextRace ==
    \/ DeleteCheck
    \/ DeleteAct
    \/ CreateCheck
    \/ CreateAct
    \/ UpdateCheck
    \/ UpdateAct

SpecRace == InitRace /\ [][NextRace]_vars

\* -------------------------------------------- the writes, on any store

\* The write methods called in a single process on whatever store the file
\* holds when the process starts: the rows others left there may include
\* employees of no department.
InitAnyStore ==
    /\ db \in StoresOf(WriterData)
    /\ call = [method |-> "", args |-> <<>>]
    /\ ret = [raised |-> "", msg |-> <<>>, rows_affected |-> 0,
              lastrowid |-> 0, writes |-> 0]
    /\ retired = [departments |-> {}, employees |-> {}]
    /\ pending = NotPending
    /\ ui = NoFrontEnd

\* The methods that write to the row of an id: the updates and the deletes.
NextAnyStore ==
    \/ UpdateDepartment
    \/ DeleteDepartment
    \/ UpdateEmployee
    \/ DeleteEmployee

SpecAnyStore == InitAnyStore /\ [][NextAnyStore]_vars

\* ----------------------------------------------------------- the front end

\* The menu-driven front end of controllers.py and views.py, run by
\* employee_management_app.main.  A menu operation is a method of a
\* controller, its body inside try/except Exception.  The user's answers to
\* the prompts are the inputs of the operation; the views accept an id only
\* when it is an integer of at least 1, and a menu choice only in range.
\* `fault` stands for the store failing under the operation's first gateway
\* call (sqlite3.OperationalError: no such table, database is locked).

\* What the user types for an employee: the values of one employee, with a
\* hire date written with two-digit month and day, with a one-digit month, or
\* day first and with slashes.
TypedData ==
    { [name |-> e.name, salary |-> e.salary, hire_date |-> h] :
      e \in {x \in EmployeeData : x.name = "Bob"},
      h \in {"2019-03-22", "2019-3-22", "22/03/2019"} }

\* The characters of the hire dates of the model.
DateChars(text) ==
    CASE text = "2020-01-15" -> <<"2", "0", "2", "0", "-", "0", "1", "-", "1", "5">>
      [] text = "2019-03-22" -> <<"2", "0", "1", "9", "-", "0", "3", "-", "2", "2">>
      [] text = "2019-3-22" -> <<"2", "0", "1", "9", "-", "3", "-", "2", "2">>
      [] text = "22/03/2019" -> <<"2", "2", "/", "0", "3", "/", "2", "0", "1", "9">>

IsDigit(c) == c \in {"0", "1", "2", "3", "4", "5", "6", "7", "8", "9"}

DigitValue(c) ==
    CASE c = "0" -> 0 [] c = "1" -> 1 [] c = "2" -> 2 [] c = "3" -> 3
      [] c = "4" -> 4 [] c = "5" -> 5 [] c = "6" -> 6 [] c = "7" -> 7
      [] c = "8" -> 8 [] c = "9" -> 9

\* datetime.strptime(text, '%Y-%m-%d') raises no ValueError: the whole text
\* matches four digits, "-", a month, "-", a day, and the day exists in that
\* month.  Month and day match with one digit as well as with two: the
\* pattern strptime compiles has (1[0-2]|0[1-9]|[1-9]) for %m and
\* (3[01]|[12]\d|0[1-9]|[1-9]| [1-9]) for %d; no text of the model holds a
\* blank.
ValidDate(text) ==
    LET s == DateChars(text)
        \* The ways a number of one or two digits, between 1 and `most`,
        \* matches at the start of t: its value and the characters after it.
        NumberAt(t, most) ==
            { <<DigitValue(t[1]), SubSeq(t, 2, Len(t))>> : x \in
                {y \in {1} : Len(t) >= 1 /\ IsDigit(t[1]) /\ DigitValue(t[1]) >= 1} }
            \cup
            { <<10 * DigitValue(t[1]) + DigitValue(t[2]), SubSeq(t, 3, Len(t))>> : x \in
                {y \in {1} : /\ Len(t) >= 2
                             /\ IsDigit(t[1])
                             /\ IsDigit(t[2])
                             /\ 10 * DigitValue(t[1]) + DigitValue(t[2]) \in 1..most} }
        DaysIn(year, month) ==
            IF month \in {4, 6, 9, 11} THEN 30
            ELSE IF month # 2 THEN 31
            ELSE IF year % 4 = 0 /\ (year % 100 # 0 \/ year % 400 = 0) THEN 29
            ELSE 28
    IN  /\ Len(s) >= 5
        /\ \A i \in 1..4 : IsDigit(s[i])
        /\ s[5] = "-"
        /\ \E m \in NumberAt(SubSeq(s, 6, Len(s)), 12) :
               /\ m[2] # <<>>
               /\ Head(m[2]) = "-"
               /\ \E day \in NumberAt(Tail(m[2]), 31) :
                      /\ day[2] = <<>>
                      /\ day[1] <= DaysIn(1000 * DigitValue(s[1]) + 100 * DigitValue(s[2])
                                          + 10 * DigitValue(s[3]) + DigitValue(s[4]),
                                          m[1])

\* The body of an operation ended by showing `screen`, or by raising, without
\* having called a write method of a repository.
Shows(d, screen) == [db |-> d, raised |-> "", screen |-> screen, writes |-> 0]

Raises(d, exception) == [db |-> d, raised |-> exception, screen |-> "", writes |-> 0]

\* A repository write inside a body: its exception propagates, its success
\* is followed by display_success_message.  `writes` is the number of write
\* statements the method handed to the gateway.
Written(r) ==
    IF r.raised # ""
    THEN [Raises(r.db, r.raised) EXCEPT !.writes = r.writes]
    ELSE [Shows(r.db, "success") EXCEPT !.writes = r.writes]

\* Faulty variant: the body without try/except; what it raises leaves the operation.
Try_Uncaught(body) ==
    [db |-> body.db, raised |-> body.raised, screen |-> body.screen,
     writes |-> body.writes, escaped |-> body.raised # ""]

\* try: body; except Exception as e: display_error_message(...)
Try(body) ==
    [db |-> body.db, raised |-> body.raised,
     screen |-> IF body.raised # "" THEN "error" ELSE body.screen,
     writes |-> body.writes, escaped |-> FALSE]

\* EmployeeView.display_employees: the format spec <15 applied to the None of
\* an employee without department raises TypeError.
display_employees(d, employees) ==
    IF \E i \in 1..Len(employees) : employees[i].department_name = NULL
    THEN Raises(d, "TypeError")
    ELSE Shows(d, "list")

\* MainMenuView.display_statistics: the format spec ,.2f applied to the None
\* of an aggregate over no employee raises TypeError.
display_statistics(d, stats) ==
    IF stats.overall.average_salary = None
    THEN Raises(d, "TypeError")
    ELSE Shows(d, "statistics")

view_all_employees(d, fault) ==
    Try(IF fault THEN Raises(d, "sqlite3.OperationalError")
        ELSE display_employees(d, EmployeeModel_get_all(d)))

view_employee_details(d, fault, emp_id) ==
    Try(IF fault THEN Raises(d, "sqlite3.OperationalError")
        ELSE IF EmployeeModel_get_by_id(d, emp_id) = None THEN Shows(d, "not found")
        ELSE Shows(d, "detail"))

add_employee(d, fault, name, department_id, salary, hire_date) ==
    Try(IF fault THEN Raises(d, "sqlite3.OperationalError")
        ELSE IF DepartmentModel_get_all(d) = <<>> THEN Shows(d, "error")
        ELSE IF ~ValidDate(hire_date) THEN Shows(d, "error")
        ELSE Written(EmployeeModel_create(d, name, department_id, salary, hire_date)))

update_employee(d, fault, emp_id, confirmed, name, department_id, salary, hire_date) ==
    Try(IF fault THEN Raises(d, "sqlite3.OperationalError")
        ELSE IF EmployeeModel_get_by_id(d, emp_id) = None THEN Shows(d, "error")
        ELSE IF ~confirmed THEN Shows(d, "detail")
        ELSE IF ~ValidDate(hire_date) THEN Shows(d, "error")
        ELSE Written(EmployeeModel_update(d, emp_id, name, department_id,
                                          salary, hire_date)))

delete_employee(d, fault, emp_id, confirmed) ==
    Try(IF fault THEN Raises(d, "sqlite3.OperationalError")
        ELSE IF EmployeeModel_get_by_id(d, emp_id) = None THEN Shows(d, "error")
        ELSE IF ~confirmed THEN Shows(d, "detail")
        ELSE Written(EmployeeModel_delete(d, emp_id)))

search_employees(d, fault, search_term) ==
    Try(IF search_term = "" THEN Shows(d, "error")
        ELSE IF fault THEN Raises(d, "sqlite3.OperationalError")
        ELSE display_employees(d, EmployeeModel_search_by_name(d, search_term)))

view_all_departments(d, fault) ==
    Try(IF fault THEN Raises(d, "sqlite3.OperationalError") ELSE Shows(d, "list"))

view_department_details(d, fault, dept_id) ==
    Try(IF fault THEN Raises(d, "sqlite3.OperationalError")
        ELSE IF DepartmentModel_get_by_id(d, dept_id) = None THEN Shows(d, "not found")
        ELSE Shows(d, "detail"))

\* Faulty variant: the create without the look-up of the name.
add_department_NoCheck(d, fault, name) ==
    Try(IF fault THEN Raises(d, "sqlite3.OperationalError")
        ELSE Written(DepartmentModel_create(d, name)))

add_department(d, fault, name) ==
    Try(IF fault THEN Raises(d, "sqlite3.OperationalError")
        ELSE IF DepartmentModel_get_by_name(d, name) # None THEN Shows(d, "error")
        ELSE Written(DepartmentModel_create(d, name)))

update_department(d, fault, dept_id, confirmed, name) ==
    Try(IF fault THEN Raises(d, "sqlite3.OperationalError")
        ELSE IF DepartmentModel_get_by_id(d, dept_id) = None THEN Shows(d, "error")
        ELSE IF ~confirmed THEN Shows(d, "detail")
        ELSE IF /\ DepartmentModel_get_by_name(d, name) # None
                /\ DepartmentModel_get_by_name(d, name).id # dept_id
             THEN Shows(d, "error")
        ELSE Written(DepartmentModel_update(d, dept_id, name)))

\* Faulty variant: the delete without the question to the user.
delete_department_Unconfirmed(d, fault, dept_id, confirmed) ==
    Try(IF fault THEN Raises(d, "sqlite3.OperationalError")
        ELSE IF DepartmentModel_get_by_id(d, dept_id) = None THEN Shows(d, "error")
        ELSE Written(DepartmentModel_delete(d, dept_id)))

delete_department(d, fault, dept_id, confirmed) ==
    Try(IF fault THEN Raises(d, "sqlite3.OperationalError")
        ELSE IF DepartmentModel_get_by_id(d, dept_id) = None THEN Shows(d, "error")
        ELSE IF ~confirmed THEN Shows(d, "detail")
        ELSE Written(DepartmentModel_delete(d, dept_id)))

\* One of the results get_statistics may return is displayed.
view_statistics(d, fault) ==
    { Try(IF fault THEN Raises(d, "sqlite3.OperationalError")
          ELSE display_statistics(d, stats)) :
      stats \in EmployeeModel_get_statistics(d) }

\* main: the MainController is built on the database file and run() shows the
\* main menu.
InitFrontEnd ==
    /\ db = EmptyStore
    /\ call = [method |-> "", args |-> <<>>]
    /\ ret = [raised |-> ""]
    /\ retired = [departments |-> {}, employees |-> {}]
    /\ pending = NotPending
    /\ ui = [menu |-> "main", at |-> "menu", screen |-> ""]

\* The user picks an operation of the menu shown and answers its prompts; the
\* operation runs to its end.  What it raised is recorded in ret.  The loop
\* then waits at "Press Enter to continue...".  An exception that leaves the
\* operation leaves run() as well and reaches main's except Exception, which
\* prints "Fatal error" and exits.
Operation(menu, method, r) ==
    /\ ui.menu = menu
    /\ ui.at = "menu"
    /\ r.db.sqlite_sequence.departments <= MaxDepartments
    /\ r.db.sqlite_sequence.employees <= MaxEmployees
    /\ db' = r.db
    /\ call' = [method |-> method, args |-> <<>>]
    /\ ret' = [raised |-> r.raised]
    /\ ui' = IF r.escaped
             THEN [menu |-> "exited", at |-> "exit", screen |-> "fatal"]
             ELSE [menu |-> menu, at |-> "paused", screen |-> r.screen]
    /\ UNCHANGED <<retired, pending>>

\* A choice that only changes the menu shown.
Navigation(from, choice, to) ==
    /\ ui.menu = from
    /\ ui.at = "menu"
    /\ call' = [method |-> choice, args |-> <<>>]
    /\ ret' = [raised |-> ""]
    /\ ui' = [menu |-> to, at |-> IF to = "exited" THEN "exit" ELSE "menu",
              screen |-> ""]
    /\ UNCHANGED <<db, retired, pending>>

\* The user presses Enter: the loop clears the screen and shows its menu again.
PressEnter ==
    /\ ui.at = "paused"
    /\ ui' = [ui EXCEPT !.at = "menu"]
    /\ UNCHANGED <<db, call, ret, retired, pending>>

ChooseEmployeeMenu == Navigation("main", "run_employee_menu", "employee")

ChooseDepartmentMenu == Navigation("main", "run_department_menu", "department")

ChooseExit == Navigation("main", "exit", "exited")

BackFromEmployeeMenu == Navigation("employee", "back", "main")

BackFromDepartmentMenu == Navigation("department", "back", "main")

ViewStatistics ==
    \E fault \in BOOLEAN : \E r \in view_statistics(db, fault) :
        Operation("main", "view_statistics", r)

ViewAllEmployees ==
    \E fault \in BOOLEAN :
        Operation("employee", "view_all_employees", view_all_employees(db, fault))

ViewEmployeeDetails ==
    \E fault \in BOOLEAN, emp_id \in EmployeeIds :
        Operation("employee", "view_employee_details",
                  view_employee_details(db, fault, emp_id))

AddEmployee ==
    \E fault \in BOOLEAN, e \in TypedData, department_id \in DepartmentIds :
        Operation("employee", "add_employee",
                  add_employee(db, fault, e.name, department_id, e.salary, e.hire_date))

UpdateEmployeeChosen ==
    \E fault \in BOOLEAN, emp_id \in EmployeeIds, confirmed \in BOOLEAN,
       e \in TypedData, department_id \in DepartmentIds :
        Operation("employee", "update_employee",
                  update_employee(db, fault, emp_id, confirmed, e.name,
                                  department_id, e.salary, e.hire_date))

DeleteEmployeeChosen ==
    \E fault \in BOOLEAN, emp_id \in EmployeeIds, confirmed \in BOOLEAN :
        Operation("employee", "delete_employee",
                  delete_employee(db, fault, emp_id, confirmed))

SearchEmployeesChosen ==
    \E fault \in BOOLEAN, search_term \in SearchTerms :
        Operation("employee", "search_employees",
                  search_employees(db, fault, search_term))

ViewAllDepartments ==
    \E fault \in BOOLEAN :
        Operation("department", "view_all_departments", view_all_departments(db, fault))

ViewDepartmentDetails ==
    \E fault \in BOOLEAN, dept_id \in DepartmentIds :
        Operation("department", "view_department_details",
                  view_department_details(db, fault, dept_id))

AddDepartment ==
    \E fault \in BOOLEAN, name \in DepartmentNames :
        Operation("department", "add_department", add_department(db, fault, name))

UpdateDepartmentChosen ==
    \E fault \in BOOLEAN, dept_id \in DepartmentIds, confirmed \in BOOLEAN,
       name \in DepartmentNames :
        Operation("department", "update_department",
                  update_department(db, fault, dept_id, confirmed, name))

DeleteDepartmentChosen ==
    \E fault \in BOOLEAN, dept_id \in DepartmentIds, confirmed \in BOOLEAN :
        Operation("department", "delete_department",
                  delete_department(db, fault, dept_id, confirmed))

NextFrontEnd ==
    \/ ChooseEmployeeMenu
    \/ ChooseDepartmentMenu
    \/ ViewStatistics
    \/ ChooseExit
    \/ ViewAllEmployees
    \/ ViewEmployeeDetails
    \/ AddEmployee
    \/ UpdateEmployeeChosen
    \/ DeleteEmployeeChosen
    \/ SearchEmployeesChosen
    \/ BackFromEmployeeMenu
    \/ ViewAllDepartments
    \/ ViewDepartmentDetails
    \/ AddDepartment
    \/ UpdateDepartmentChosen
    \/ DeleteDepartmentChosen
    \/ BackFromDepartmentMenu
    \/ PressEnter

SpecFrontEnd == InitFrontEnd /\ [][NextFrontEnd]_vars

\* --------------------------------------------------------- the tool server

\* The statements the clients of the tool server send.  A text is the
\* sequence of its characters up to the end of its first word, followed by the
\* rest of the text as one element, a run that begins and ends with a
\* character other than white space.  `sql` is what SQLite reads the text as,
\* `params` the values bound to its ? marks.

Queries ==
    LET Query(text, sql, params) == [text |-> text, sql |-> sql, params |-> params]
    IN
    { Query(<<"S", "E", "L", "E", "C", "T", " ",
              "e.*, d.name as department_name FROM employees e LEFT JOIN departments d ON e.department_id = d.id ORDER BY e.name">>,
            "SelectEmployees", <<>>),
      Query(<<" ", "\n", "s", "e", "l", "e", "c", "t", " ",
              "* from departments order by name">>,
            "SelectDepartments", <<>>),
      Query(<<"W", "I", "T", "H", " ",
              "t AS (SELECT * FROM departments) SELECT * FROM t ORDER BY name">>,
            "SelectDepartments", <<>>),
      Query(<<"S", "E", "L", "E", "C", "T", "E", "D">>, "SyntaxError", <<>>),
      Query(<<"D", "R", "O", "P", " ", "TABLE employees">>, "DropEmployees", <<>>) }
    \cup { Query(<<"I", "N", "S", "E", "R", "T", " ",
                   "INTO employees (name, department_id, salary, hire_date) VALUES (?, ?, ?, ?)">>,
                 "InsertEmployee", <<"Alice", department_id, 60000, "2020-01-15">>) :
           department_id \in DepartmentIds }
    \cup { Query(<<"u", "p", "d", "a", "t", "e", " ",
                   "employees set name = ?, department_id = ?, salary = ?, hire_date = ? where id = ?">>,
                 "UpdateEmployee", <<"Alice", department_id, 60000, "2020-01-15", 1>>) :
           department_id \in DepartmentIds }
    \cup { Query(<<"D", "E", "L", "E", "T", "E", " ", "FROM departments WHERE id = ?">>,
                 "DeleteDepartment", <<dept_id>>) :
           dept_id \in DepartmentIds }
    \cup { Query(<<"I", "N", "S", "E", "R", "T", " ", "INTO departments (name) VALUES (?)">>,
                 "InsertDepartment", <<"HR">>) }

\* The requests: the five tools with their arguments, and a name that is none
\* of them.  A get_table_info request may come without its table_name.
Requests ==
    { [name |-> tool, arguments |-> [query |-> q]] :
      tool \in {"query_employees", "query_departments", "execute_sql"}, q \in Queries }
    \cup { [name |-> "get_schema", arguments |-> <<>>] }
    \cup { [name |-> "get_table_info", arguments |-> [table_name |-> t]] :
           t \in {"employees", "departments", "payroll", ""} }
    \cup { [name |-> "list_employees", arguments |-> <<>>] }

\* str.strip(): the text without the white space at its two ends.
strip(text) ==
    LET whitespace == {" ", "\n", "\t"}
        RECURSIVE lstrip(_)
        lstrip(t) ==
            IF t # <<>> /\ Head(t) \in whitespace THEN lstrip(Tail(t)) ELSE t
        RECURSIVE rstrip(_)
        rstrip(t) ==
            IF t # <<>> /\ t[Len(t)] \in whitespace
            THEN rstrip(SubSeq(t, 1, Len(t) - 1))
            ELSE t
    IN  rstrip(lstrip(text))

\* Faulty variant: the text compared as typed, without upper-casing.
upper_AsTyped(text) == text

\* str.upper(), on the characters the first words of the statements are made of.
upper(text) ==
    [i \in DOMAIN text |->
        CASE text[i] = "a" -> "A"
          [] text[i] = "c" -> "C"
          [] text[i] = "d" -> "D"
          [] text[i] = "e" -> "E"
          [] text[i] = "l" -> "L"
          [] text[i] = "p" -> "P"
          [] text[i] = "s" -> "S"
          [] text[i] = "t" -> "T"
          [] text[i] = "u" -> "U"
          [] OTHER -> text[i]]

\* str.startswith(prefix)
startswith(text, prefix) ==
    Len(text) >= Len(prefix) /\ SubSeq(text, 1, Len(prefix)) = prefix

\* cursor.execute(query, params) on a fresh connection to the store d: what
\* the statement leaves behind, with the rows it returns.  sqlite3 opens a
\* transaction before an INSERT, UPDATE, DELETE or REPLACE and before no other
\* statement: every other statement takes effect in the file as it runs.
\* DROP TABLE takes a table and its sqlite_sequence row out of the file; a
\* statement on a table that is not there is refused.
sqlite3_execute(d, query) ==
    LET p == query.params
        Rows(rows) ==
            [db |-> d, error |-> "", rowcount |-> -1, lastrowid |-> 0,
             rows |-> rows, in_transaction |-> FALSE]
        Dml(stmt) ==
            [db |-> stmt.db, error |-> stmt.error, rowcount |-> stmt.rowcount,
             lastrowid |-> stmt.lastrowid, rows |-> <<>>,
             in_transaction |-> stmt.error = ""]
        Ddl(store) ==
            [db |-> store, error |-> "", rowcount |-> -1, lastrowid |-> 0,
             rows |-> <<>>, in_transaction |-> FALSE]
        Refused(error) ==
            [db |-> d, error |-> error, rowcount |-> -1, lastrowid |-> 0,
             rows |-> <<>>, in_transaction |-> FALSE]
        TablesOf(sql) ==
            CASE sql = "SelectEmployees" -> {"employees", "departments"}
              [] sql \in {"InsertEmployee", "UpdateEmployee", "DropEmployees"} ->
                   {"employees"}
              [] sql \in {"SelectDepartments", "DeleteDepartment",
                          "InsertDepartment"} -> {"departments"}
              [] OTHER -> {}
        DropTable(table) ==
            [t \in DOMAIN d \ {table} |->
                IF t = "sqlite_sequence"
                THEN [seq \in DOMAIN d[t] \ {table} |-> d[t][seq]]
                ELSE d[t]]
        \* SELECT sql FROM sqlite_master WHERE type='table': a row per table.
        Schema ==
            SelectSeq(<<[sql |-> "departments"], [sql |-> "employees"],
                        [sql |-> "sqlite_sequence"]>>,
                      LAMBDA row : row.sql \in DOMAIN d)
        Columns(table) ==
            CASE table = "departments" -> <<"id", "name", "created_at">>
              [] table = "employees" ->
                   <<"id", "name", "department_id", "salary", "hire_date",
                     "created_at">>
              [] OTHER -> <<>>
        \* PRAGMA table_info(table_name): a row per column, no row for a table
        \* the file does not hold.
        TableInfo(table_name) ==
            IF table_name \in DOMAIN d
            THEN [i \in DOMAIN Columns(table_name) |->
                     [cid |-> i - 1, name |-> Columns(table_name)[i]]]
            ELSE <<>>
    IN  IF query.sql = "SyntaxError"
        THEN Refused("near \"SELECTED\": syntax error")
        ELSE IF ~(TablesOf(query.sql) \subseteq DOMAIN d)
        THEN Refused("no such table: employees")
        ELSE CASE query.sql = "SelectEmployees" -> Rows(SQL_SelectEmployees(d))
               [] query.sql = "SelectDepartments" -> Rows(SQL_SelectDepartments(d))
               [] query.sql = "Schema" -> Rows(Schema)
               [] query.sql = "TableInfo" ->
                    IF p[1] = "" THEN Refused("near \")\": syntax error")
                    ELSE Rows(TableInfo(p[1]))
               [] query.sql = "InsertEmployee" ->
                    Dml(SQL_InsertEmployee(d, p[1], p[2], p[3], p[4]))
               [] query.sql = "UpdateEmployee" ->
                    Dml(SQL_UpdateEmployee(d, p[1], p[2], p[3], p[4], p[5]))
               [] query.sql = "DeleteDepartment" -> Dml(SQL_DeleteDepartment(d, p[1]))
               [] query.sql = "InsertDepartment" -> Dml(SQL_InsertDepartment(d, p[1]))
               [] query.sql = "DropEmployees" -> Ddl(DropTable("employees"))

\* The connection after cursor.execute: the changes of a statement run in a
\* transaction wait for the commit, those of any other are in the file.
cursor_execute_any(conn, stmt) ==
    IF stmt.in_transaction
    THEN [conn EXCEPT !.working = stmt.db]
    ELSE [conn EXCEPT !.working = stmt.db, !.file = stmt.db]

\* SQLiteMCPServer.execute_query: the rows as a list of dicts, or the error of
\* the statement; the connection is closed on both ways out and never
\* committed.
SQLiteMCPServer_execute_query(d, query) ==
    LET After(stmt) ==
            [db |-> close(cursor_execute_any(get_connection(d), stmt)),
             raised |-> IF stmt.error = "" THEN "" ELSE "sqlite3.Error",
             msg |-> stmt.error,
             results |-> stmt.rows,
             path |-> "read"]
    IN  After(sqlite3_execute(d, query))

\* SQLiteMCPServer.execute_modification: commit and return rows_affected and
\* lastrowid, or roll back and raise again; close on both ways out.
SQLiteMCPServer_execute_modification(d, query) ==
    LET After(stmt, conn) ==
            IF stmt.error = ""
            THEN [db |-> close(commit(conn)), raised |-> "", msg |-> "",
                  results |-> [rows_affected |-> stmt.rowcount,
                               lastrowid |-> stmt.lastrowid],
                  path |-> "write"]
            ELSE [db |-> close(rollback(conn)), raised |-> "sqlite3.Error",
                  msg |-> stmt.error, results |-> <<>>, path |-> "write"]
        Executed(stmt) == After(stmt, cursor_execute_any(get_connection(d), stmt))
    IN  Executed(sqlite3_execute(d, query))

\* CallToolResult(content=[TextContent(type="text", text=...)]): the text as
\* the characters it starts with and the value the rest of it prints.
\* json.dumps prints a list from "[" on and a dict from "{" on; it is not
\* reached when the gateway call before it raises, and the exception goes on
\* with its message.
CallToolResult(d, path, starts, value) ==
    [db |-> d, raised |-> "", path |-> path,
     text |-> [starts |-> starts, value |-> value]]

json_dumps(r) ==
    IF r.raised # ""
    THEN [db |-> r.db, raised |-> r.raised, path |-> r.path,
          text |-> [starts |-> "", value |-> r.msg]]
    ELSE CallToolResult(r.db, r.path,
                        IF r.path = "read" THEN "[" ELSE "{", r.results)

\* Faulty variant: execute_sql sends every statement down the read path.
execute_sql_AlwaysRead(d, query) ==
    json_dumps(SQLiteMCPServer_execute_query(d, query))

\* The execute_sql branch: the read path for a text that starts with SELECT
\* once stripped and upper-cased, the write path for any other.
execute_sql(d, query) ==
    LET query_upper == upper(strip(query.text))
    IN  IF startswith(query_upper, <<"S", "E", "L", "E", "C", "T">>)
        THEN json_dumps(SQLiteMCPServer_execute_query(d, query))
        ELSE json_dumps(SQLiteMCPServer_execute_modification(d, query))

\* The branches of call_tool, before its except clause.
call_tool_branches(d, request) ==
    CASE request.name \in {"query_employees", "query_departments"} ->
           json_dumps(SQLiteMCPServer_execute_query(d, request.arguments.query))
      [] request.name = "execute_sql" -> execute_sql(d, request.arguments.query)
      [] request.name = "get_schema" ->
           json_dumps(SQLiteMCPServer_execute_query(d,
               [text |-> <<"S", "E", "L", "E", "C", "T", " ",
                           "sql FROM sqlite_master WHERE type='table'">>,
                sql |-> "Schema", params |-> <<>>]))
      [] request.name = "get_table_info" ->
           json_dumps(SQLiteMCPServer_execute_query(d,
               [text |-> <<"P", "R", "A", "G", "M", "A", " ", "table_info(",
                           request.arguments.table_name, ")">>,
                sql |-> "TableInfo",
                params |-> <<request.arguments.table_name>>]))
      [] OTHER -> CallToolResult(d, "", "Unknown tool: ", request.name)

\* Faulty variant: call_tool without its except clause.
call_tool_NoExcept(d, request) == call_tool_branches(d, request)

\* SQLiteMCPServer.call_tool: whatever a branch raises is caught and returned
\* as a text that starts with "Error: ".
call_tool(d, request) ==
    LET Except(r) ==
            IF r.raised # ""
            THEN CallToolResult(r.db, r.path, "Error: ", r.text.value)
            ELSE r
    IN  Except(call_tool_branches(d, request))

\* One request served: the store becomes what call_tool left, the request and
\* the result are recorded.  The sequences stay within the bounds of the model.
InitTools ==
    /\ db = EmptyStore
    /\ call = [method |-> "", args |-> <<>>]
    /\ ret = [raised |-> "", path |-> "", text |-> [starts |-> "", value |-> ""]]
    /\ retired = [departments |-> {}, employees |-> {}]
    /\ pending = NotPending
    /\ ui = NoFrontEnd

Serves(request) ==
    LET Served(r) ==
            /\ r.db.sqlite_sequence.departments <= MaxDepartments
            /\ "employees" \in DOMAIN r.db =>
                   r.db.sqlite_sequence.employees <= MaxEmployees
            /\ db' = r.db
            /\ call' = [method |-> "call_tool", args |-> <<request>>]
            /\ ret' = [raised |-> r.raised, path |-> r.path, text |-> r.text]
            /\ UNCHANGED <<retired, pending, ui>>
    IN  Served(call_tool(db, request))

QueryEmployees ==
    \E request \in Requests : request.name = "query_employees" /\ Serves(request)

QueryDepartments ==
    \E request \in Requests : request.name = "query_departments" /\ Serves(request)

ExecuteSql ==
    \E request \in Requests : request.name = "execute_sql" /\ Serves(request)

GetSchema ==
    \E request \in Requests : request.name = "get_schema" /\ Serves(request)

GetTableInfo ==
    \E request \in Requests : request.name = "get_table_info" /\ Serves(request)

UnknownTool ==
    \E request \in Requests :
        /\ request.name \notin {"query_employees", "query_departments", "execute_sql",
                                "get_schema", "get_table_info"}
        /\ Serves(request)

NextTools ==
    \/ QueryEmployees
    \/ QueryDepartments
    \/ ExecuteSql
    \/ GetSchema
    \/ GetTableInfo
    \/ UnknownTool

SpecTools == InitTools /\ [][NextTools]_vars

\* ------------------------------------------- the gateway, line by line

\* A gateway call taken apart into the lines of its body, to see the
\* connection between them.  `pending` holds where the call stands (pc), its
\* connection, the number of connections open in the process (open), the
\* number the call has opened (opened) and the exception on its way out
\* (raising).  DatabaseConnection of models.py and SQLiteMCPServer have the
\* same two functions, line for line.
InitGateway ==
    /\ db = EmptyStore
    /\ call = [method |-> "", args |-> <<>>]
    /\ ret = [raised |-> "", value |-> None]
    /\ retired = [departments |-> {}, employees |-> {}]
    /\ pending = [pc |-> "idle", conn |-> None, open |-> 0, opened |-> 0,
                  raising |-> ""]
    /\ ui = NoFrontEnd

\* Faulty variant: conn.close() on the way out of a call that returns, not of one that raises.
Finally_OnReturnOnly(p) ==
    IF p.raising = ""
    THEN [p EXCEPT !.pc = "idle", !.conn = None, !.open = @ - 1]
    ELSE [p EXCEPT !.pc = "idle", !.conn = None]

\* finally: conn.close(), on every way out of the try block.
Finally(p) == [p EXCEPT !.pc = "idle", !.conn = None, !.open = @ - 1]

\* A caller enters execute_query or execute_modification with a statement.
EnterGateway ==
    \E method \in {"execute_query", "execute_modification"},
       q \in {x \in Queries :
                 x.sql \in {"SelectEmployees", "InsertDepartment", "DeleteDepartment",
                            "InsertEmployee", "SyntaxError"}} :
        /\ pending.pc = "idle"
        /\ call' = [method |-> method, args |-> <<q>>]
        /\ pending' = [pending EXCEPT !.pc = "entered", !.opened = 0, !.raising = ""]
        /\ UNCHANGED <<db, ret, retired, ui>>

\* conn = self.get_connection()
Connect ==
    /\ pending.pc = "entered"
    /\ pending' = [pending EXCEPT !.pc = "connected",
                                  !.conn = get_connection(db),
                                  !.open = @ + 1,
                                  !.opened = @ + 1]
    /\ UNCHANGED <<db, call, ret, retired, ui>>

\* cursor.execute(query, params): the statement runs on the connection, or
\* raises; control then goes to the except clause of execute_modification, or
\* to the finally clause of execute_query, which has no except.
CursorExecute ==
    LET stmt == sqlite3_execute(pending.conn.working, call.args[1])
        conn == cursor_execute_any(pending.conn, stmt)
    IN  /\ pending.pc = "connected"
        /\ conn.working.sqlite_sequence.departments <= MaxDepartments
        /\ conn.working.sqlite_sequence.employees <= MaxEmployees
        /\ IF stmt.error = ""
           THEN /\ pending' = [pending EXCEPT !.pc = "executed", !.conn = conn]
                /\ ret' = [raised |-> "",
                           value |-> IF call.method = "execute_query"
                                     THEN stmt.rows
                                     ELSE [rows_affected |-> stmt.rowcount,
                                           lastrowid |-> stmt.lastrowid]]
           ELSE /\ pending' =
                       [pending EXCEPT !.pc = IF call.method = "execute_modification"
                                              THEN "except" ELSE "finally",
                                       !.raising = stmt.error]
                /\ ret' = [raised |-> "", value |-> None]
        /\ db' = conn.file
        /\ UNCHANGED <<call, retired, ui>>

\* rows = cursor.fetchall(); return [dict(row) for row in rows]
FetchAll ==
    /\ pending.pc = "executed"
    /\ call.method = "execute_query"
    /\ pending' = [pending EXCEPT !.pc = "finally"]
    /\ UNCHANGED <<db, call, ret, retired, ui>>

\* conn.commit(): the changes reach the file, or the commit raises (the file
\* is locked by another process, the disk is full) and control goes to the
\* except clause.
Commit ==
    \E locked \in BOOLEAN :
        /\ pending.pc = "executed"
        /\ call.method = "execute_modification"
        /\ IF locked
           THEN /\ pending' = [pending EXCEPT !.pc = "except",
                                              !.raising = "database is locked"]
                /\ ret' = [raised |-> "", value |-> None]
                /\ UNCHANGED db
           ELSE /\ pending' = [pending EXCEPT !.pc = "finally",
                                              !.conn = commit(pending.conn)]
                /\ db' = commit(pending.conn).file
                /\ UNCHANGED ret
        /\ UNCHANGED <<call, retired, ui>>

\* except Exception as e: conn.rollback(); raise e
Rollback ==
    /\ pending.pc = "except"
    /\ pending' = [pending EXCEPT !.pc = "finally", !.conn = rollback(pending.conn)]
    /\ UNCHANGED <<db, call, ret, retired, ui>>

\* finally: conn.close(); the call returns its value or raises its exception.
Close ==
    /\ pending.pc = "finally"
    /\ pending' = Finally(pending)
    /\ db' = close(pending.conn)
    /\ ret' = [ret EXCEPT !.raised = pending.raising]
    /\ UNCHANGED <<call, retired, ui>>

NextGateway ==
    \/ EnterGateway
    \/ Connect
    \/ CursorExecute
    \/ FetchAll
    \/ Commit
    \/ Rollback
    \/ Close

SpecGateway == InitGateway /\ [][NextGateway]_vars

\* ------------------------------------------------ callers with any text

\* The repositories called with whatever str a caller passes as a name, the
\* empty one included: neither the methods nor the schema (NOT NULL refuses
\* None, not '') look at the text.
CreateDepartmentAnyName ==
    \E name \in {"", "HR"} :
        Returns("DepartmentModel.create", <<name>>,
                DepartmentModel_create(db, name))

UpdateDepartmentAnyName ==
    \E dept_id \in DepartmentIds, name \in {"", "HR"} :
        Returns("DepartmentModel.update", <<dept_id, name>>,
                DepartmentModel_update(db, dept_id, name))

CreateEmployeeAnyName ==
    \E name \in {"", "Alice"}, department_id \in DepartmentIds :
        Returns("EmployeeModel.create",
                <<name, department_id, 60000, "2020-01-15">>,
                EmployeeModel_create(db, name, department_id, 60000, "2020-01-15"))

UpdateEmployeeAnyName ==
    \E emp_id \in EmployeeIds, name \in {"", "Alice"}, department_id \in DepartmentIds :
        Returns("EmployeeModel.update",
                <<emp_id, name, department_id, 60000, "2020-01-15">>,
                EmployeeModel_update(db, emp_id, name, department_id,
                                     60000, "2020-01-15"))

NextAnyName ==
    \/ CreateDepartmentAnyName
    \/ UpdateDepartmentAnyName
    \/ CreateEmployeeAnyName
    \/ UpdateEmployeeAnyName

SpecAnyName == Init /\ [][NextAnyName]_vars

\* ============================================================ properties

\* The employees whose department_id is dept_id.
Assigned(d, dept_id) == {e \in d.employees : e.department_id = dept_id}

\* The last call was `method` with arguments `args`.
Called(method, args) == call.method = method /\ call.args = args

\* C1: every employee's department_id identifies an existing department, in
\* every state a sequence of repository calls reaches from a store in which
\* that holds, whether the calls succeed or fail.
C1_ReferentialIntegrity ==
    \A e \in db.employees : \E x \in db.departments : x.id = e.department_id

\* C1 witness: a delete of a department was refused while an employee is
\* assigned, after a department has already been deleted.
C1_Witness ==
    /\ call.method = "DepartmentModel.delete"
    /\ ret.raised = "ValueError"
    /\ db.employees # {}
    /\ retired.departments # {}

\* C2: deleting a department that N >= 1 employees reference raises the
\* delete-protection error (a ValueError in the code) whose message reports
\* exactly N, issues no DELETE, and leaves the whole store as it was: the
\* department is still returned by get_by_id and every employee row is as before.
C2_DeleteRefused ==
    [][\A D \in db.departments :
          (Called("DepartmentModel.delete", <<D.id>>)' /\ Assigned(db, D.id) # {})
          => /\ ret'.raised = "ValueError"
             /\ ret'.msg = <<"Cannot delete department.",
                             Cardinality(Assigned(db, D.id)),
                             "employees are still assigned to it.">>
             /\ ret'.writes = 0
             /\ db' = db
             /\ DepartmentModel_get_by_id(db', D.id) = D
             /\ db'.employees = db.employees]_vars

\* C2 witness: a delete was refused with a message that reports 2 employees.
C2_Witness ==
    /\ call.method = "DepartmentModel.delete"
    /\ ret.raised = "ValueError"
    /\ ret.msg[2] = 2
    /\ Cardinality(Assigned(db, call.args[1])) = 2

\* C3: deleting an existing department that no employee references succeeds,
\* get_by_id then returns None for it, and no other department and no employee
\* is removed or changed.
C3_DeleteUnreferenced ==
    [][\A D \in db.departments :
          (Called("DepartmentModel.delete", <<D.id>>)' /\ Assigned(db, D.id) = {})
          => /\ ret'.raised = ""
             /\ ret'.rows_affected = 1
             /\ DepartmentModel_get_by_id(db', D.id) = None
             /\ db'.departments = db.departments \ {D}
             /\ db'.employees = db.employees]_vars

\* C3 witness: a delete removed a department while another department and an
\* employee are in the store.
C3_Witness ==
    /\ call.method = "DepartmentModel.delete"
    /\ ret.raised = ""
    /\ ret.rows_affected = 1
    /\ db.departments # {}
    /\ db.employees # {}

\* C4: Employee create with a department_id that is no department's id raises
\* the validation error (a ValueError) before any INSERT is issued, and adds no
\* row: get_all returns the same list, of the same length, as before.
C4_CreateRefused ==
    [][(call'.method = "EmployeeModel.create"
          /\ call'.args[2] \notin Ids(db.departments))
       => /\ ret'.raised = "ValueError"
          /\ ret'.msg = <<"Department with ID", call'.args[2], "does not exist">>
          /\ ret'.writes = 0
          /\ db'.employees = db.employees
          /\ Len(EmployeeModel_get_all(db')) = Len(EmployeeModel_get_all(db))
          /\ EmployeeModel_get_all(db') = EmployeeModel_get_all(db)]_vars

\* C4 witness: a create was refused while the store holds an employee and a
\* department.
C4_Witness ==
    /\ call.method = "EmployeeModel.create"
    /\ ret.raised = "ValueError"
    /\ db.employees # {}
    /\ call.args[2] \notin Ids(db.departments)

\* C5: Employee update with a department_id that is no department's id raises
\* the same validation error as create, and the targeted employee and every
\* other row keep all their field values.
C5_UpdateRefused ==
    [][(call'.method = "EmployeeModel.update"
          /\ call'.args[3] \notin Ids(db.departments))
       => /\ ret'.raised = "ValueError"
          /\ ret'.msg = <<"Department with ID", call'.args[3], "does not exist">>
          /\ ret'.writes = 0
          /\ db'.employees = db.employees
          /\ db'.departments = db.departments
          /\ \A emp_id \in EmployeeIds :
               EmployeeModel_get_by_id(db', emp_id) = EmployeeModel_get_by_id(db, emp_id)]_vars

\* C5 witness: an update of an existing employee was refused, with values that
\* differ from the ones the employee holds.
C5_Witness ==
    /\ call.method = "EmployeeModel.update"
    /\ ret.raised = "ValueError"
    /\ \E e \in db.employees : e.id = call.args[1] /\ e.name # call.args[2]

\* C6: Employee delete never fails, whatever else the store holds: it removes
\* exactly the employee with that id (none when no employee has it) and leaves
\* every department and every other employee unchanged.
C6_DeleteEmployee ==
    [][call'.method = "EmployeeModel.delete"
       => /\ ret'.raised = ""
          /\ ret'.rows_affected =
               Cardinality({e \in db.employees : e.id = call'.args[1]})
          /\ db'.employees = {e \in db.employees : e.id # call'.args[1]}
          /\ db'.departments = db.departments
          /\ EmployeeModel_get_by_id(db', call'.args[1]) = None]_vars

\* C6 witness: a delete removed one employee, the only one of its department,
\* and another employee is still in the store.
C6_Witness ==
    /\ call.method = "EmployeeModel.delete"
    /\ ret.raised = ""
    /\ ret.rows_affected = 1
    /\ call.args[1] \in retired.employees
    /\ db.employees # {}
    /\ \E x \in db.departments : Assigned(db, x.id) = {}

\* C7: after a successful Employee create, lastrowid is the id of the one row
\* the call added, and get_by_id(lastrowid) returns a record whose name,
\* department_id, salary and hire_date are the arguments and whose
\* department_name is the name of the department with that id.
C7_CreateRoundTrip ==
    [][(call'.method = "EmployeeModel.create" /\ ret'.raised = "")
       => LET got == EmployeeModel_get_by_id(db', ret'.lastrowid)
          IN  /\ ret'.lastrowid \notin Ids(db.employees)
              /\ Ids(db'.employees) = Ids(db.employees) \cup {ret'.lastrowid}
              /\ Cardinality(db'.employees) = Cardinality(db.employees) + 1
              /\ db.employees \subseteq db'.employees
              /\ got # None
              /\ got.id = ret'.lastrowid
              /\ got.name = call'.args[1]
              /\ got.department_id = call'.args[2]
              /\ got.salary = call'.args[3]
              /\ got.hire_date = call'.args[4]
              /\ \E x \in db.departments :
                   x.id = call'.args[2] /\ got.department_name = x.name]_vars

\* C7 witness: a create succeeded as the second employee of the store, in
\* another department and with other values than the first.
C7_Witness ==
    /\ call.method = "EmployeeModel.create"
    /\ ret.raised = ""
    /\ \E e \in db.employees :
         /\ e.id # ret.lastrowid
         /\ e.name # call.args[1]
         /\ e.department_id # call.args[2]

\* C8: Department update changes nothing but the name of the department with
\* that id: every employee row, department_id included, and every other
\* department are as before; after a successful update every employee assigned
\* to the department is read back (get_by_id, get_all) with the new name as
\* department_name and all other fields as before.
C8_RenameDepartment ==
    [][call'.method = "DepartmentModel.update"
       => LET dept_id == call'.args[1]
              name == call'.args[2]
          IN  /\ db'.employees = db.employees
              /\ Ids(db'.departments) = Ids(db.departments)
              /\ {x \in db'.departments : x.id # dept_id}
                   = {x \in db.departments : x.id # dept_id}
              /\ db'.sqlite_sequence = db.sqlite_sequence
              /\ ret'.raised = ""
                 => /\ \A x \in db'.departments : x.id = dept_id => x.name = name
                    /\ \A e \in Assigned(db, dept_id) :
                         /\ dept_id \in Ids(db.departments)
                              => EmployeeModel_get_by_id(db', e.id) =
                                   [EmployeeModel_get_by_id(db, e.id)
                                       EXCEPT !.department_name = name]
                         /\ \E i \in 1..Len(EmployeeModel_get_all(db')) :
                              /\ EmployeeModel_get_all(db')[i].id = e.id
                              /\ EmployeeModel_get_all(db')[i].department_id = dept_id
                              /\ EmployeeModel_get_all(db')[i].department_name = name]_vars

\* C8 witness: a department with an assigned employee was renamed while a
\* second department with its own employee is in the store.
C8_Witness ==
    /\ call.method = "DepartmentModel.update"
    /\ ret.raised = ""
    /\ ret.rows_affected = 1
    /\ \E x \in db.departments : x.id = call.args[1] /\ x.name = "hr"
    /\ \E e, f \in db.employees :
         e.department_id = call.args[1] /\ f.department_id # call.args[1]

\* C9: no two departments have the same name (exact, case-sensitive match),
\* and a create or update that would give a second department a name already
\* in use fails and leaves the departments as they were.
DistinctNames ==
    \A x, y \in db.departments : x.name = y.name => x.id = y.id

RefusesDuplicate ==
    /\ (call'.method = "DepartmentModel.create"
          /\ \E x \in db.departments : x.name = call'.args[1])
       => /\ ret'.raised = "sqlite3.IntegrityError"
          /\ db'.departments = db.departments
          /\ db' = db
    /\ (call'.method = "DepartmentModel.update"
          /\ call'.args[1] \in Ids(db.departments)
          /\ \E x \in db.departments :
               x.id # call'.args[1] /\ x.name = call'.args[2])
       => /\ ret'.raised = "sqlite3.IntegrityError"
          /\ db'.departments = db.departments
          /\ db' = db

C9_UniqueNames == []DistinctNames /\ [][RefusesDuplicate]_vars

\* C9 witness: an update to the name of another department was refused while
\* the two departments hold names that differ only in case.
C9_Witness ==
    /\ call.method = "DepartmentModel.update"
    /\ ret.raised = "sqlite3.IntegrityError"
    /\ {x.name : x \in db.departments} = {"HR", "hr"}

\* C10: ids are unique and positive in both tables, no call changes the id of
\* a row (only a successful create adds an id, the one it returns, and every
\* other id stays on its row), and the id of a deleted row is never the id of
\* a row in the store again.
UniqueIds(rows) == \A r, s \in rows : r.id = s.id => r = s

IdsWellFormed ==
    /\ UniqueIds(db.departments) /\ UniqueIds(db.employees)
    /\ \A i \in Ids(db.departments) \cup Ids(db.employees) : i > 0
    /\ retired.departments \cap Ids(db.departments) = {}
    /\ retired.employees \cap Ids(db.employees) = {}

\* The ids of a table over one step: a successful create adds its lastrowid,
\* a positive id no row had; nothing else adds an id; an update keeps them all.
IdsStable(method_prefix, before, after) ==
    /\ (call'.method = method_prefix \o ".create" /\ ret'.raised = "")
       => /\ Ids(after) = Ids(before) \cup {ret'.lastrowid}
          /\ ret'.lastrowid \notin Ids(before)
          /\ before \subseteq after
    /\ ~(call'.method = method_prefix \o ".create" /\ ret'.raised = "")
       => Ids(after) \subseteq Ids(before)
    /\ call'.method \in {"DepartmentModel.update", "EmployeeModel.update"}
       => Ids(after) = Ids(before)

IdsImmutable ==
    /\ IdsStable("DepartmentModel", db.departments, db'.departments)
    /\ IdsStable("EmployeeModel", db.employees, db'.employees)

C10_Ids == []IdsWellFormed /\ [][IdsImmutable]_vars

\* C10 witness: a department was created after the department with the
\* largest id so far had been deleted.
C10_Witness ==
    /\ call.method = "DepartmentModel.create"
    /\ ret.raised = ""
    /\ ret.lastrowid - 1 \in retired.departments
    /\ Ids(db.departments) = {ret.lastrowid}

\* The e.* columns of a joined result row are those of the employee row e.
SameEmployee(row, e) ==
    /\ row.id = e.id
    /\ row.name = e.name
    /\ row.department_id = e.department_id
    /\ row.salary = e.salary
    /\ row.hire_date = e.hire_date

LookupAnswer ==
    /\ call.method = "DepartmentModel.get_by_id" =>
         /\ ret.raised = ""
         /\ IF \E r \in db.departments : r.id = call.args[1]
            THEN ret.value \in db.departments /\ ret.value.id = call.args[1]
            ELSE ret.value = None
    /\ call.method = "DepartmentModel.get_by_name" =>
         /\ ret.raised = ""
         /\ IF \E r \in db.departments : r.name = call.args[1]
            THEN ret.value \in db.departments /\ ret.value.name = call.args[1]
            ELSE ret.value = None
    /\ call.method = "EmployeeModel.get_by_id" =>
         /\ ret.raised = ""
         /\ IF \E e \in db.employees : e.id = call.args[1]
            THEN \E e \in db.employees :
                     e.id = call.args[1] /\ SameEmployee(ret.value, e)
            ELSE ret.value = None

LookupReadsOnly ==
    call'.method \in {"DepartmentModel.get_by_id", "DepartmentModel.get_by_name",
                      "EmployeeModel.get_by_id"} => db' = db

\* C11: Department.get(id), Department.find_by_name(name) and
\* Employee.get(id) return the absent value, without raising, when no row
\* matches, and the matching record otherwise; none of them changes the store.
C11_Lookups == []LookupAnswer /\ [][LookupReadsOnly]_vars

\* C11 witness: a lookup by name answered absent in a store that holds a
\* department whose name differs from the argument only in case.
C11_Witness ==
    /\ call.method = "DepartmentModel.get_by_name"
    /\ ret.value = None
    /\ \E r \in db.departments : r.name # call.args[1]
    /\ db.employees # {}

\* What a later gateway call reads of the employee emp_id.
ReadsEmployee(d, emp_id, name, department_id, salary, hire_date) ==
    LET row == EmployeeModel_get_by_id(d, emp_id)
    IN  /\ row # None
        /\ row.name = name
        /\ row.department_id = department_id
        /\ row.salary = salary
        /\ row.hire_date = hire_date

\* A write that returned is committed: the reads of the next gateway call
\* show its effect.
Committed ==
    (ret'.writes = 1 /\ ret'.raised = "") =>
        LET a == call'.args
            m == call'.method
        IN  /\ m = "DepartmentModel.create" =>
                   DepartmentModel_get_by_name(db', a[1]) =
                       [id |-> ret'.lastrowid, name |-> a[1]]
            /\ (m = "DepartmentModel.update" /\ ret'.rows_affected = 1) =>
                   DepartmentModel_get_by_id(db', a[1]) = [id |-> a[1], name |-> a[2]]
            /\ m = "DepartmentModel.delete" =>
                   DepartmentModel_get_by_id(db', a[1]) = None
            /\ m = "EmployeeModel.create" =>
                   ReadsEmployee(db', ret'.lastrowid, a[1], a[2], a[3], a[4])
            /\ (m = "EmployeeModel.update" /\ ret'.rows_affected = 1) =>
                   ReadsEmployee(db', a[1], a[2], a[3], a[4], a[5])
            /\ m = "EmployeeModel.delete" =>
                   EmployeeModel_get_by_id(db', a[1]) = None

\* A write that failed re-raises the statement's error and leaves the store
\* as it was before the call.
RolledBack ==
    (ret'.writes = 1 /\ ret'.raised # "") =>
        /\ ret'.raised = "sqlite3.IntegrityError"
        /\ ret'.msg # <<>>
        /\ db' = db

\* C12: execute_modification is commit-or-rollback: when the statement
\* succeeds its effect is committed and visible to every later gateway call;
\* when it fails the error is re-raised and the store is exactly as before.
C12_CommitOrRollback == [][Committed /\ RolledBack]_vars

\* C12 witness: a statement failed on a store that earlier commits filled.
C12_Witness ==
    /\ ret.writes = 1
    /\ ret.raised = "sqlite3.IntegrityError"
    /\ Cardinality(db.departments) = 2
    /\ db.employees # {}

\* The last call was a search for the characters Searched.
Searching == call.method = "EmployeeModel.search_by_name"

Searched == Chars(call.args[1])

\* The ids of the rows a list method returned.
Found == {ret.value[i].id : i \in 1..Len(ret.value)}

\* text contains s as a literal substring, up to the case of ASCII letters.
Contains(text, s) ==
    \E i \in 0..(Len(text) - Len(s)) :
        \A k \in 1..Len(s) : Lower(text[i + k]) = Lower(s[k])

NoWildcard(s) == \A k \in 1..Len(s) : s[k] \notin {"%", "_"}

Containing(s) == {e \in db.employees : Contains(Chars(e.name), s)}

\* C13 as stated: a search for "" and a search for a substring of no
\* employee's name return an empty sequence and never an error, in every
\* store state.
C13_EmptySearch ==
    (Searching /\ (call.args[1] = "" \/ Containing(Searched) = {})) =>
        ret.raised = "" /\ ret.value = <<>>

\* C13 amended: a search never raises; a search for "" returns every employee
\* of the store once (an empty sequence only in a store without employees);
\* a search for a substring free of % and _ that no employee's name contains
\* returns an empty sequence.
C13_EmptySearchAmended ==
    Searching =>
        /\ ret.raised = ""
        /\ call.args[1] = "" =>
               /\ Found = Ids(db.employees)
               /\ Len(ret.value) = Cardinality(db.employees)
        /\ (NoWildcard(Searched) /\ Containing(Searched) = {}) =>
               ret.value = <<>>

\* C13 witness: a search for "" returned the two employees of the store.
C13_Witness ==
    /\ Searching
    /\ call.args[1] = ""
    /\ Len(ret.value) = 2
    /\ Cardinality(db.employees) = 2

\* rows is in ascending order of name (BINARY collation).
SortedByName(rows) ==
    \A i, j \in 1..Len(rows) : i < j => Rank(rows[i].name) <= Rank(rows[j].name)

\* C14 as stated: for every input string s, search_by_name(s) returns exactly
\* the employees whose name contains s as a literal substring compared
\* case-insensitively, ordered by name.
C14_LiteralSubstring ==
    Searching =>
        /\ Found = Ids(Containing(Searched))
        /\ Len(ret.value) = Cardinality(Found)
        /\ SortedByName(ret.value)

\* C14 amended: for every input string s free of the LIKE wildcards % and _,
\* search_by_name(s) returns exactly the employees whose name contains s as a
\* substring, compared up to the case of ASCII letters, ordered by name.
C14_SubstringAmended ==
    (Searching /\ NoWildcard(Searched)) =>
        /\ Found = Ids(Containing(Searched))
        /\ Len(ret.value) = Cardinality(Found)
        /\ SortedByName(ret.value)

\* C14 witness: a search in the other case found one employee of two.
C14_Witness ==
    /\ Searching
    /\ call.args[1] = "LI"
    /\ Len(ret.value) = 1
    /\ ret.value[1].name = "Alice"
    /\ Cardinality(db.employees) = 2

Statistics == call.method = "EmployeeModel.get_statistics"

\* C15: statistics().by_department has exactly one entry for every
\* department, its employee_count the number of employees with that
\* department_id; a department without employees has employee_count 0 and a
\* null avg_salary; the entries are in descending order of employee_count.
C15_ByDepartment ==
    Statistics =>
        LET by == ret.value.by_department
        IN  /\ Len(by) = Cardinality(db.departments)
            /\ \A x \in db.departments :
                   \E i \in 1..Len(by) :
                       /\ by[i].department_name = x.name
                       /\ by[i].employee_count = Cardinality(Assigned(db, x.id))
                       /\ Assigned(db, x.id) = {} =>
                              by[i].employee_count = 0 /\ by[i].avg_salary = None
                       /\ \A j \in 1..Len(by) :
                              by[j].department_name = x.name => j = i
            /\ \A i, j \in 1..Len(by) :
                   i < j => by[i].employee_count >= by[j].employee_count

\* C15 witness: the statistics of a store with a department of two employees
\* and a department of none.
C15_Witness ==
    /\ Statistics
    /\ Len(ret.value.by_department) = 2
    /\ ret.value.by_department[1].employee_count = 2
    /\ ret.value.by_department[2].employee_count = 0
    /\ ret.value.by_department[2].avg_salary = None

RECURSIVE SumOfCounts(_)
SumOfCounts(by) ==
    IF by = <<>> THEN 0 ELSE Head(by).employee_count + SumOfCounts(Tail(by))

\* C16: statistics().overall.total_employees is the number of employee rows,
\* and the sum of employee_count over by_department whenever every employee
\* references an existing department; with no employee statistics() returns,
\* with total_employees 0 and null average, minimum and maximum salary.
C16_Overall ==
    Statistics =>
        LET overall == ret.value.overall
        IN  /\ ret.raised = ""
            /\ overall.total_employees = Cardinality(db.employees)
            /\ C1_ReferentialIntegrity =>
                   overall.total_employees = SumOfCounts(ret.value.by_department)
            /\ db.employees = {} =>
                   /\ overall.total_employees = 0
                   /\ overall.average_salary = None
                   /\ overall.min_salary = None
                   /\ overall.max_salary = None

\* C16 witness: the statistics of a store with departments and no employee.
C16_Witness ==
    /\ Statistics
    /\ db.employees = {}
    /\ Cardinality(db.departments) = 2
    /\ ret.value.overall.total_employees = 0
    /\ ret.value.overall.average_salary = None

\* The list the last call returned holds exactly the rows of `rows`, each
\* once, in ascending order of name.
Lists(rows) ==
    /\ ret.raised = ""
    /\ Found = Ids(rows)
    /\ Len(ret.value) = Cardinality(rows)
    /\ \A i \in 1..Len(ret.value) :
           \E r \in rows : r.id = ret.value[i].id /\ r.name = ret.value[i].name
    /\ SortedByName(ret.value)

\* C17: Department.list_all() returns every department exactly once, sorted
\* by name ascending; Employee.list_all() returns every employee exactly once,
\* sorted by name ascending, including the employees whose department no
\* longer exists; Employee.list_by_department(d) returns exactly the
\* employees whose department_id is d, sorted by name.
C17_Lists ==
    /\ call.method = "DepartmentModel.get_all" => Lists(db.departments)
    /\ call.method = "EmployeeModel.get_all" => Lists(db.employees)
    /\ call.method = "EmployeeModel.get_by_department" =>
           Lists(Assigned(db, call.args[1]))

\* C17 witness: the list of all employees holds two employees, one of them
\* of a department that does not exist.
C17_Witness ==
    /\ call.method = "EmployeeModel.get_all"
    /\ Len(ret.value) = 2
    /\ ret.value[1].department_name = NULL
    /\ ret.value[2].department_name # NULL

\* The department the writer's call assigns its employee to.
Target ==
    IF call.writer.method = "EmployeeModel.create" THEN call.writer.args[2]
    ELSE call.writer.args[3]

\* The step is the write half of the deleter's Department.delete.
DeleteReturns == pending.deleter.pc = "checked" /\ pending'.deleter.pc = "idle"

\* The step is the write half of the writer's Employee.create or update.
WriterReturns == pending.writer.pc = "checked" /\ pending'.writer.pc = "idle"

\* C18: the check and the delete of Department.delete are atomic for the
\* caller: when a second process runs Employee.create or Employee.update
\* interleaved with Department.delete(D), no employee is assigned to D between
\* the count and the DELETE with both calls reporting success.  The count that
\* lets the DELETE run is 0 and an assignment is in the store only once its
\* call has committed, so a DELETE that succeeds finds no employee of D.
C18_DeleteAtomic ==
    [][(DeleteReturns /\ ret'.deleter.raised = "") =>
           Assigned(db, call.deleter.args[1]) = {}]_vars

\* A delete of the writer's target department began after the writer's check,
\* returned before the writer's write, and reported success.
DeletedBetween ==
    /\ pending.between = "done"
    /\ call.deleter.args[1] = Target
    /\ ret.deleter.raised = ""
    /\ ret.deleter.rows_affected = 1

\* d holds an employee of the department dept_id, which does not exist.
Dangling(d, dept_id) ==
    /\ Assigned(d, dept_id) # {}
    /\ \A x \in d.departments : x.id # dept_id

\* A Department.delete(D) that begins while the writer is between its check
\* of D and its write, and counts no employee of D, succeeds.
DeleteNotHeldBack ==
    (DeleteReturns /\ pending.between = "begun"
        /\ call.deleter.args[1] = Target /\ pending.deleter.seen[1].count = 0) =>
        /\ ret'.deleter.raised = ""
        /\ \A x \in db'.departments : x.id # Target

\* After such a delete the writer's INSERT or UPDATE succeeds all the same,
\* and the employee it wrote has a department_id of no department.
WriteAfterDelete ==
    (WriterReturns /\ DeletedBetween /\ pending.writer.seen # <<>>) =>
        /\ ret'.writer.raised = ""
        /\ ret'.writer.rows_affected = 1 => Dangling(db', Target)
        /\ call.writer.method = "EmployeeModel.create" => Dangling(db', Target)

\* C19: the department-existence guard of Employee.create and Employee.update
\* can race: a Department.delete(D) by a second process that runs entirely
\* between the existence check and the INSERT or UPDATE succeeds, the INSERT or
\* UPDATE then succeeds too, and the store holds an employee whose
\* department_id is dangling.
C19_GuardRaces == [][DeleteNotHeldBack /\ WriteAfterDelete]_vars

\* C19 witness: both calls have returned with success, the delete having run
\* between the check and the INSERT of the create, and the new employee's
\* department is gone.
C19_Witness ==
    /\ pending.between = "done"
    /\ pending.writer.pc = "idle"
    /\ pending.deleter.pc = "idle"
    /\ call.writer.method = "EmployeeModel.create"
    /\ call.deleter.args = <<call.writer.args[2]>>
    /\ ret.deleter.raised = ""
    /\ ret.deleter.rows_affected = 1
    /\ ret.writer.raised = ""
    /\ \E e \in db.employees :
           e.id = ret.writer.lastrowid /\ Dangling(db, e.department_id)

\* A failure raised inside an operation is rendered as an error message and
\* the process stays in the loop of the same menu.
FailureCaught ==
    (ui.at = "menu" /\ ret'.raised # "") =>
        /\ ui'.screen = "error"
        /\ ui'.at = "paused"
        /\ ui'.menu = ui.menu

\* After the message the only step is the one that shows the same menu again.
MenuAgain ==
    ui.at = "paused" => (ui'.at = "menu" /\ ui'.menu = ui.menu /\ db' = db)

\* The process ends only by the exit choice of the main menu, and a sub-menu
\* is left only by its back choice.
LoopsEndByChoice ==
    /\ ui'.menu = "exited" =>
           (ui.menu = "main" /\ ui.at = "menu" /\ call'.method = "exit")
    /\ (ui.menu \in {"employee", "department"} /\ ui'.menu # ui.menu) =>
           (ui'.menu = "main" /\ ui.at = "menu" /\ call'.method = "back")
    /\ ui.menu = "exited" => ui'.menu = "exited"

\* C20: in the interactive front end a failure raised by a repository or
\* gateway call during a menu operation is caught and rendered as an error
\* message, after which the menu is shown again; a failure in one operation
\* never terminates the process, and the menu loops end only when the user
\* selects the exit or back choice.
C20_FailuresCaught == [][FailureCaught /\ MenuAgain /\ LoopsEndByChoice]_vars

\* C20 witness: the department menu is shown again after a delete that the
\* repository refused was rendered as an error.
C20_Witness ==
    /\ call.method = "delete_department"
    /\ ret.raised = "ValueError"
    /\ ui.screen = "error"
    /\ ui.menu = "department"
    /\ ui.at = "menu"

\* The last request was the tool `name` with a statement that SQLite reads as `sql`.
Requested(name, sql) ==
    /\ call.method = "call_tool"
    /\ call.args[1].name = name
    /\ call.args[1].arguments.query.sql = sql

\* The employees of d whose department_id names no department.
Orphans(d) ==
    {e \in d.employees : \A x \in d.departments : x.id # e.department_id}

\* The store holds the table.
HasTable(d, table) == table \in DOMAIN d

\* The white space str.strip() removes.
Whitespace == {" ", "\n", "\t"}

\* What the statement of the request does to the store when SQLite runs it
\* and its changes are committed.
Effect(d, request) == sqlite3_execute(d, request.arguments.query)

\* execute_sql runs and commits a DELETE of a department, and an INSERT or
\* UPDATE of an employee, whatever employees and departments the store holds.
Unguarded ==
    \A request \in Requests :
        (/\ request.name = "execute_sql"
         /\ request.arguments.query.sql \in
                {"DeleteDepartment", "InsertEmployee", "UpdateEmployee"}
         /\ HasTable(db, "employees")
         /\ call' = [method |-> "call_tool", args |-> <<request>>])
        => /\ db' = Effect(db, request).db
           /\ ret'.raised = ""
           /\ ret'.text.starts = "{"
           /\ ret'.text.value.rows_affected = Effect(db, request).rowcount

\* Employee.get and list_all return an employee of no department, with NULL
\* as its department_name.
OrphansReturned ==
    HasTable(db, "employees") =>
        \A e \in Orphans(db) :
            /\ EmployeeModel_get_by_id(db, e.id) # None
            /\ SameEmployee(EmployeeModel_get_by_id(db, e.id), e)
            /\ EmployeeModel_get_by_id(db, e.id).department_name = NULL
            /\ \E i \in DOMAIN EmployeeModel_get_all(db) :
                   /\ SameEmployee(EmployeeModel_get_all(db)[i], e)
                   /\ EmployeeModel_get_all(db)[i].department_name = NULL

\* C21: through execute_sql a DELETE of a department that still has employees,
\* and an INSERT or UPDATE of an employee with a department_id of no
\* department, is executed and committed without a guard; the employees left
\* with a dangling department_id are still returned by Employee.get and
\* list_all, with a null department_name.
C21_ToolsBypassGuards == []OrphansReturned /\ [][Unguarded]_vars

\* execute_sql has just deleted a department that an employee is assigned to,
\* and has reported one row affected.
C21_Witness ==
    /\ Requested("execute_sql", "DeleteDepartment")
    /\ HasTable(db, "employees")
    /\ ret.text.starts = "{"
    /\ ret.text.value.rows_affected = 1
    /\ \E e \in Orphans(db) : e.department_id = call.args[1].arguments.query.params[1]
    /\ \E e \in db.employees : e.department_id # call.args[1].arguments.query.params[1]

\* The names of the five tools.
ToolNames ==
    {"query_employees", "query_departments", "execute_sql", "get_schema",
     "get_table_info"}

\* Serving the request on the store as it is fails: a branch of call_tool raises.
Fails(request) == call_tool_branches(db, request).raised # ""

\* The step serves `request`.
Serving(request) == call' = [method |-> "call_tool", args |-> <<request>>]

\* A request returns a result and raises nothing; the result of a request that
\* fails is the text "Error: " followed by the message of the exception, that
\* of a request for a tool that does not exist "Unknown tool: " followed by the
\* name; both leave the store as it was; no other result starts like these.
FailuresReturned ==
    \A request \in Requests :
        Serving(request) =>
            /\ ret'.raised = ""
            /\ Fails(request) <=> ret'.text.starts = "Error: "
            /\ Fails(request) =>
                   /\ ret'.text.value = call_tool_branches(db, request).text.value
                   /\ ret'.text.value # ""
                   /\ db' = db
            /\ request.name \notin ToolNames <=> ret'.text.starts = "Unknown tool: "
            /\ request.name \notin ToolNames =>
                   /\ ret'.text.value = request.name
                   /\ db' = db

\* C25: call_tool never propagates an exception: a failure while a request is
\* handled comes back as a result whose text starts with "Error: ", a request
\* that names none of the five tools as "Unknown tool: <name>", and the store
\* is unchanged in both cases.
C25_FailuresReturned == [][FailuresReturned]_vars

\* execute_sql has just been refused a second department of the same name: the
\* UNIQUE failure of the write path came back as an "Error: " text.
C25_Witness ==
    /\ Requested("execute_sql", "InsertDepartment")
    /\ ret.raised = ""
    /\ ret.path = "write"
    /\ ret.text.starts = "Error: "
    /\ ret.text.value = "UNIQUE constraint failed: departments.name"
    /\ \E x \in db.departments : x.name = call.args[1].arguments.query.params[1]

\* The letters of SELECT, in either case.
SelectLetters ==
    <<{"S", "s"}, {"E", "e"}, {"L", "l"}, {"E", "e"}, {"C", "c"}, {"T", "t"}>>

\* The first six characters after the leading white space of the text spell
\* SELECT in some mix of upper and lower case.
LeadsWithSelect(text) ==
    \E n \in 0..Len(text) :
        /\ \A i \in 1..n : text[i] \in Whitespace
        /\ Len(text) >= n + 6
        /\ \A k \in 1..6 : text[n + k] \in SelectLetters[k]

\* execute_sql takes the read path for the texts that lead with SELECT, and
\* then returns the rows of the statement and leaves the store as it was; it
\* takes the write path for every other text, and then, unless the statement
\* fails, commits what the statement did and returns rows_affected and
\* lastrowid.
ExecuteSqlPaths ==
    \A request \in Requests :
        (request.name = "execute_sql" /\ Serving(request)) =>
            LET text == request.arguments.query.text
                stmt == Effect(db, request)
            IN  /\ LeadsWithSelect(text) <=> ret'.path = "read"
                /\ ~LeadsWithSelect(text) <=> ret'.path = "write"
                /\ LeadsWithSelect(text) =>
                       /\ db' = db
                       /\ stmt.error = "" =>
                              /\ ret'.text.starts = "["
                              /\ ret'.text.value = stmt.rows
                /\ (~LeadsWithSelect(text) /\ stmt.error = "") =>
                       /\ db' = stmt.db
                       /\ ret'.text.starts = "{"
                       /\ ret'.text.value =
                              [rows_affected |-> stmt.rowcount,
                               lastrowid |-> stmt.lastrowid]

\* C26: execute_sql runs a statement on the read path (rows returned, nothing
\* committed) exactly when the statement, stripped of surrounding white space
\* and upper-cased, starts with SELECT; every other statement runs on the
\* write path, is committed on success and yields rows_affected and lastrowid
\* instead of rows.
C26_ExecuteSqlPaths == [][ExecuteSqlPaths]_vars

\* execute_sql has just returned the rows of a select typed in lower case
\* after white space, from a store that holds a department.
C26_Witness ==
    /\ Requested("execute_sql", "SelectDepartments")
    /\ call.args[1].arguments.query.text[1] \in Whitespace
    /\ ret.path = "read"
    /\ ret.text.starts = "["
    /\ Len(ret.text.value) = 1
    /\ ret.text.value[1] \in db.departments

\* The rows of a table of the store; a table that is not there holds none.
RowsOf(d, table) == IF HasTable(d, table) THEN d[table] ELSE {}

\* The tools that call execute_query and nothing else.
ReadTools == {"query_employees", "query_departments", "get_schema", "get_table_info"}

\* A request served by a read tool leaves the rows of both tables as they were.
ReadToolsKeepRows ==
    \A request \in Requests :
        (request.name \in ReadTools /\ Serving(request)) =>
            /\ RowsOf(db', "departments") = RowsOf(db, "departments")
            /\ RowsOf(db', "employees") = RowsOf(db, "employees")

\* C27: the read path never changes the store: execute_query never commits,
\* so query_employees, query_departments, get_schema and get_table_info leave
\* the rows of both tables unchanged, whatever statement is passed to them.
C27_ReadPathKeepsStore == [][ReadToolsKeepRows]_vars

\* A read tool handed an INSERT, UPDATE or DELETE leaves the store as it was:
\* the statement runs in a transaction that is never committed.
DmlNotCommitted ==
    [][\A request \in Requests :
         (/\ request.name \in {"query_employees", "query_departments"}
          /\ request.arguments.query.sql \in
                 {"InsertEmployee", "UpdateEmployee", "DeleteDepartment",
                  "InsertDepartment"}
          /\ Serving(request))
         => db' = db]_vars

\* No gateway call is under way.
BetweenCalls == pending.pc = "idle"

\* The call under way holds its connection: every line of the body after
\* get_connection and before the end of the finally clause.
InsideCall == pending.pc \in {"connected", "executed", "except", "finally"}

\* C24: every gateway call (execute_query, execute_modification) opens exactly
\* one connection and closes it before it returns or raises, on success and
\* on failure alike: no connection is open between calls, and at most one at
\* any time in single-process use.
C24_OneConnectionPerCall ==
    /\ pending.open <= 1
    /\ BetweenCalls => pending.open = 0
    /\ (BetweenCalls /\ call.method # "") => pending.opened = 1
    /\ InsideCall => pending.open = 1 /\ pending.opened = 1 /\ pending.conn # None

\* An execute_modification has just raised out of its except clause, after a
\* failed commit of an INSERT, and no connection is open.
C24_Witness ==
    /\ BetweenCalls
    /\ call.method = "execute_modification"
    /\ call.args[1].sql = "InsertDepartment"
    /\ ret.raised = "database is locked"
    /\ pending.opened = 1
    /\ pending.open = 0
    /\ db.departments = {}

\* C22: in every state reachable through the repository create and update
\* operations, every department and every employee has a non-empty name.
C22_NamesNotEmpty ==
    /\ \A x \in db.departments : x.name # ""
    /\ \A e \in db.employees : e.name # ""

\* The text has the form YYYY-MM-DD: four digits, two digits and two digits,
\* with "-" between them.
IsYYYYMMDD(text) ==
    LET s == DateChars(text)
    IN  /\ Len(s) = 10
        /\ \A i \in {1, 2, 3, 4, 6, 7, 9, 10} : IsDigit(s[i])
        /\ s[5] = "-"
        /\ s[8] = "-"

\* C23: every employee created or updated through the front end (add_employee,
\* update_employee) is stored with a hire_date in YYYY-MM-DD form; a hire date
\* typed in another form gets an error message and no insert or update.
C23_HireDateForm == \A e \in db.employees : IsYYYYMMDD(e.hire_date)

\* The operation ended on an error message of its own: nothing was raised, no
\* write method was called and the store is as it was.
Declined(d, r) ==
    /\ r.db = d
    /\ r.raised = ""
    /\ r.writes = 0
    /\ r.screen = "error"

\* Some department, other than the one with id `self_id`, has the name.
NameTaken(d, self_id, name) ==
    \E x \in d.departments : x.name = name /\ x.id # self_id

\* C28: the front end checks the uniqueness of the name before every
\* department write: add_department issues no create when a department of
\* that name exists; update_department issues no update when another
\* department has the name, and issues it when the name is free or is the
\* department's own.
C28_UniquenessPreCheck ==
    \A name \in DepartmentNames :
        /\ NameTaken(db, 0, name) => Declined(db, add_department(db, FALSE, name))
        /\ (~NameTaken(db, 0, name)
            /\ db.sqlite_sequence.departments < MaxDepartments) =>
               /\ add_department(db, FALSE, name).writes = 1
               /\ add_department(db, FALSE, name).screen = "success"
               /\ \E x \in add_department(db, FALSE, name).db.departments :
                      x.name = name /\ x \notin db.departments
        /\ \A dept_id \in Ids(db.departments) :
               LET r == update_department(db, FALSE, dept_id, TRUE, name)
               IN  /\ NameTaken(db, dept_id, name) => Declined(db, r)
                   /\ ~NameTaken(db, dept_id, name) =>
                          /\ r.writes = 1
                          /\ r.raised = ""
                          /\ r.screen = "success"
                          /\ [id |-> dept_id, name |-> name] \in r.db.departments

\* update_department has just refused a name: both departments exist, so the
\* id was found, and nothing was raised, so the refusal is the pre-check's.
C28_Witness ==
    /\ call.method = "update_department"
    /\ ui.screen = "error"
    /\ ret.raised = ""
    /\ Ids(db.departments) = 1..2
    /\ \E x, y \in db.departments : x.id # y.id /\ x.name # y.name

\* The operation ended without a write: nothing was raised, no write method
\* was called, the store is as it was, and the screen is `screen`.
EndedWithout(d, r, screen) ==
    /\ r.db = d
    /\ r.raised = ""
    /\ r.writes = 0
    /\ r.screen = screen

\* C29: in update_employee, delete_employee, update_department and
\* delete_department, when the id typed matches no record ("not found" error)
\* or the user does not confirm, no write is issued and the store is
\* unchanged; add_employee issues no insert when no department exists.
C29_NoWriteWithoutRecordOrConsent ==
    /\ \A emp_id \in EmployeeIds, confirmed \in BOOLEAN, e \in TypedData,
          department_id \in DepartmentIds :
           LET update == update_employee(db, FALSE, emp_id, confirmed, e.name,
                                         department_id, e.salary, e.hire_date)
               delete == delete_employee(db, FALSE, emp_id, confirmed)
           IN  IF emp_id \notin Ids(db.employees)
               THEN EndedWithout(db, update, "error") /\ EndedWithout(db, delete, "error")
               ELSE ~confirmed =>
                        EndedWithout(db, update, "detail") /\ EndedWithout(db, delete, "detail")
    /\ \A dept_id \in DepartmentIds, confirmed \in BOOLEAN, name \in DepartmentNames :
           LET update == update_department(db, FALSE, dept_id, confirmed, name)
               delete == delete_department(db, FALSE, dept_id, confirmed)
           IN  IF dept_id \notin Ids(db.departments)
               THEN EndedWithout(db, update, "error") /\ EndedWithout(db, delete, "error")
               ELSE ~confirmed =>
                        EndedWithout(db, update, "detail") /\ EndedWithout(db, delete, "detail")
    /\ db.departments = {} =>
           \A e \in TypedData, department_id \in DepartmentIds :
               EndedWithout(db, add_employee(db, FALSE, e.name, department_id,
                                             e.salary, e.hire_date), "error")

\* delete_department has just shown a department without employees and
\* returned at the question: the department is still there.
C29_Witness ==
    /\ call.method = "delete_department"
    /\ ui.screen = "detail"
    /\ ret.raised = ""
    /\ db.departments # {}
    /\ \E x \in db.departments : Assigned(db, x.id) = {}

\* The step is the call `method` with `args`.
Calling(method, args) == call' = [method |-> method, args |-> args]

\* The call raised nothing, affected no row and left the store as it was.
SilentNoOp ==
    /\ ret'.raised = ""
    /\ ret'.rows_affected = 0
    /\ db' = db

\* Department.update, Employee.delete and Employee.update (with the id of an
\* existing department) on an id of no record are silent no-ops.
NoOpOnMissingId ==
    /\ \A dept_id \in DepartmentIds \ Ids(db.departments), name \in DepartmentNames :
           Calling("DepartmentModel.update", <<dept_id, name>>) => SilentNoOp
    /\ \A emp_id \in EmployeeIds \ Ids(db.employees) :
           /\ Calling("EmployeeModel.delete", <<emp_id>>) => SilentNoOp
           /\ \A e \in EmployeeData, department_id \in Ids(db.departments) :
                  Calling("EmployeeModel.update",
                          <<emp_id, e.name, department_id, e.salary, e.hire_date>>)
                  => SilentNoOp

\* C30: repository writes to an id that matches no record are silent no-ops:
\* Department.update, Department.delete, Employee.delete, and Employee.update
\* with an existing department_id, raise no error, return rows_affected = 0
\* and leave the store unchanged.
C30_NoOpWrites ==
    [][/\ NoOpOnMissingId
       /\ \A dept_id \in DepartmentIds \ Ids(db.departments) :
              Calling("DepartmentModel.delete", <<dept_id>>) => SilentNoOp]_vars

\* C30 as the code has it: Department.delete of an id of no department is a
\* silent no-op when no employee holds that id as department_id, and raises
\* the ValueError of the delete guard, store unchanged, when one does; the
\* other three writes are silent no-ops on an id of no record.
C30_NoOpWritesAmended ==
    [][/\ NoOpOnMissingId
       /\ \A dept_id \in DepartmentIds \ Ids(db.departments) :
              Calling("DepartmentModel.delete", <<dept_id>>) =>
                  IF Assigned(db, dept_id) = {}
                  THEN SilentNoOp
                  ELSE /\ ret'.raised = "ValueError"
                       /\ ret'.writes = 0
                       /\ db' = db]_vars

\* Department.delete has just returned rows_affected 0 for an id of no
\* department, on a store that holds a department and an employee.
C30_Witness ==
    /\ call.method = "DepartmentModel.delete"
    /\ call.args[1] \notin Ids(db.departments)
    /\ Assigned(db, call.args[1]) = {}
    /\ ret.raised = ""
    /\ ret.rows_affected = 0
    /\ ret.writes = 1
    /\ db.departments # {}
    /\ db.employees # {}

====
